---- MODULE Spec2Model ----
(***************************************************************************)
(* Verification model of RLM++ (WilliamJin123/RLM_plus_plus).              *)
(*                                                                         *)
(*   - ModelRotator            src/src/core/factory.py                     *)
(*   - summarizer worker       src/src/core/validator.py                   *)
(*     (_get_summary_from_llm and its key queue)                           *)
(*   - summary store           src/src/core/storage.py                     *)
(*   - ingestion               src/src/core/indexer.py                     *)
(*   - validation and repair   src/src/core/validator.py                   *)
(*   - the chunkers            src/src/chunking/fixed.py, llm.py,          *)
(*                             src/src/utils/token_buffer.py               *)
(*   - the navigator           src/src/tools/rlm_tools.py                  *)
(*   - the database file       src/src/core/storage.py (_init_tables,      *)
(*                             _migrate_schema_if_needed)                  *)
(*   - the agent catalog       src/src/config/config.py                    *)
(*                                                                         *)
(* The specifications share the variables:                                *)
(*   SpecRotator  threads calling get_next_config / force_rotate,          *)
(*                statement by statement, under the rotator's lock;        *)
(*   SpecWorkers  the executor threads running _get_summary_from_llm;      *)
(*   Spec         one store: ingest_file, then validate/repair cycles;     *)
(*   SpecIngestFair  ingest_file alone, under weak fairness;               *)
(*   SpecRepair   validate/repair cycles on the store an interrupted       *)
(*                ingestion left; SpecRepairFair: the same call repeated,  *)
(*                under weak fairness;                                     *)
(*   SpecTexts    a one-chunk store whose summary is any text, then        *)
(*                validate/repair cycles;                                  *)
(*   SpecDry      dry and real repair calls on an interrupted store;       *)
(*   SpecStorage  the writers of the store, called in any order;           *)
(*   SpecFixed, SpecLlm  one chunk_text call of FixedTokenChunker and of   *)
(*                SemanticBoundaryChunker (SpecFixedFair, SpecLlmFair:     *)
(*                under weak fairness);                                    *)
(*   SpecNav      one call of a tool of RLMTools, made on two stores that  *)
(*                differ in their chunk texts only;                        *)
(*   SpecRunsFair one repair call on a store an interrupted ingestion      *)
(*                left, under weak fairness;                               *)
(*   SpecPool     the executor of the level-0 phase: calls complete in     *)
(*                any order, the main thread takes them in input order;    *)
(*   SpecTokens   one get_chunk_at call of TokenBuffer;                    *)
(*   SpecDatabase StorageEngine opened on database files of the old and    *)
(*                of the current layout;                                   *)
(*   SpecConfig   AgentConfigLoader: get_agent and save calls while the    *)
(*                catalog file is edited.                                  *)
(***************************************************************************)
EXTENDS Integers, Sequences, FiniteSets, TLC

(***************************************************************************)
(* Bounds of the model.                                                    *)
(***************************************************************************)
MaxConfigs == 2        \* rotation pools of 1..MaxConfigs models
MaxCallsPerModel == 2  \* calls_per_model in 1..MaxCallsPerModel
MaxCalls == 5          \* get_next_config calls issued per run of SpecRotator
NumThreads == 2        \* threads sharing one rotator in SpecRotator
NumKeys == 2           \* num_keys: size of the key queue = executor threads
MaxTasks == 2          \* prompts submitted to the executor in SpecWorkers
MaxFileLen == 6        \* files of 1..MaxFileLen characters
MaxTargetTokens == 1   \* target_chunk_tokens in 1..MaxTargetTokens
MaxChunks == 2         \* chunks_data keeps the first MaxChunks chunks
MaxGroup == 2          \* group_size in 1..MaxGroup
MaxDepth == 2          \* max_depth in 0..MaxDepth
MaxNodes == 4          \* ingest_file stops adding levels beyond MaxNodes rows
MaxRepairs == 2        \* repair calls on one store
MaxDocLen == 5         \* characters of the text FixedTokenChunker gets
MaxLlmDocLen == 3      \* ... and SemanticBoundaryChunker
MaxTokens == 2         \* max_tokens in 1..MaxTokens
MaxRows == 2           \* rows of table summaries in SpecStorage
MaxDryChunks == 2      \* chunks of the interrupted store of SpecDry
MaxStoredChunks == 3   \* chunks an interrupted ingestion left (SpecRepair)
MaxNavChunks == 1      \* chunks of the store the navigator reads
MaxOpens == 2          \* times the database file is opened
MaxOldRows == 2        \* rows of table summaries in a file of any layout
MaxClock == 3          \* the file system's clock runs over 1..MaxClock
MaxPoolCalls == 3      \* calls submitted to the executor in one phase
MaxRunChunks == 2      \* chunks of the store of SpecRunsFair

(***************************************************************************)
(* Program constants.                                                      *)
(***************************************************************************)
MaxRetries == 3        \* _get_summary_from_llm(max_retries=3)
LookaheadFactor == 5   \* lookahead_chars = target_chunk_tokens * 5
MinOverlap == 50       \* find_cut_point: min_overlap = 50
CharsPerTokenEstimate == 6   \* CHARS_PER_TOKEN_ESTIMATE
DefaultOverlapChars == 50    \* DEFAULT_OVERLAP_CHARS
DefaultNextBack == 100       \* parsed.get(..., len(text) - 100)
FallbackOverlap == 200 \* find_cut_point, fallback: overlap = 200
ForceAdvanceChars == 100  \* ingest_file: current_idx += 100

None == 0 - 1          \* Python None for an integer slot

VARIABLES
  \* ---- ModelRotator (factory.py 17-57) --------------------------------
  rot_n,        \* len(self._configs)
  rot_c,        \* self._calls_per_model
  rot_index,    \* self._index
  rot_count,    \* self._call_count
  rot_lock,     \* self._lock: 0 = free, t = held by thread t
  tpc,          \* position of each thread inside a rotator method
  tcfg,         \* local `config` of get_next_config, as an index in _configs
  tk,           \* ordinal (0, 1, 2, ...) of the thread's get_next_config call
  tprev,        \* _index as force_rotate found it when it took the lock
  rot_calls,    \* number of get_next_config calls that took the lock so far
  rot_forced,   \* some force_rotate has run since construction
  \* ---- summarizer workers (validator.py 19-28, 273-312) ----------------
  has_rotator,  \* self.summary_rotator is not None
  key_queue,    \* self.key_queue (FIFO of key indexes)
  wpc,          \* position of each executor thread in _get_summary_from_llm
  key_index,    \* local key_index of the call, None outside a call
  attempt,      \* loop variable of `for attempt in range(max_retries)`
  wmodel,       \* index of the model config selected for the attempt
  wcontent,     \* response.content of the attempt in progress
  wlast,        \* how the thread's last call ended and what it returned
  tasks_left,   \* prompts submitted and not yet picked up by a thread
  \* ---- the store (storage.py) ------------------------------------------
  chunks,       \* table chunks: row i has id i; TRUE = its text is not empty
  nodes,        \* table summaries: row i has id i
  \* ---- Indexer.ingest_file (indexer.py 25-236) --------------------------
  ipc,          \* position inside ingest_file
  full_len,     \* len(full_text)
  target_chunk_tokens,
  group_size,   \* ingest_file(group_size=...)
  current_idx,
  seg_len,      \* len(segment) handed to find_cut_point
  chunks_data,  \* the chunks cut so far (TRUE = text not empty)
  current_level_summaries,  \* ids of the nodes of the level just written
  level,
  \* ---- DatabaseValidator.validate / repair (validator.py 40-473) --------
  rpc,          \* position inside repair
  issues,       \* what validate() returned
  repair_group_size,  \* repair(group_size=...)
  max_depth,    \* repair(max_depth=...)
  current_level,      \* local of _complete_hierarchy_parallel
  stats,        \* the counts repair returns
  level_0_results,    \* counts of the fill phase
  repairs,      \* repair calls started on this store
  last_repair,  \* history: the arguments of the latest repair call, and
                \* whether it repeats the call before it
  \* ---- the chunkers (chunking/fixed.py, chunking/llm.py) ----------------
  cpc,          \* position inside chunk_text
  strategy,     \* "fixed": FixedTokenChunker, "llm": SemanticBoundaryChunker
  doc,          \* text: one entry per character (its kind)
  max_tokens,   \* self.max_tokens
  overlap_pct,  \* self.overlap_ratio, in hundredths
  chk_idx,      \* current_idx of chunk_text
  prev_chunk,   \* the ChunkResult yielded before the last one
  last_chunk,   \* the last ChunkResult yielded
  rebuilt,      \* history (FixedTokenChunker): the texts yielded so far,
                \* each without the part that overlaps its predecessor,
                \* one after the other
  last_cut,     \* history (SemanticBoundaryChunker): len(valid_window),
                \* cut_rel and next_start_rel of the last round
  \* ---- RLMTools (rlm_tools.py 10-175) -----------------------------------
  nav_call,     \* the last call of a tool: its name and arguments
  nav_out,      \* what the call returned, or that it raised
  nav_sub,      \* the sub-agent of the call: whether create_agent was
                \* called, and the replies sub_agent.run returned
  alt_chunks,   \* table chunks of a second store that differs from the
                \* first in the texts of its chunks only
  alt_out,      \* the same call on the second store, with the same
  alt_sub,      \* outcomes of the sub-agent's creation and calls
  \* ---- the database file (storage.py 36-118) ----------------------------
  schema,       \* its layout: whether table summaries has column chunk_id,
                \* table summary_chunks if there is one; whether a
                \* StorageEngine is open on it; history: the layout and the
                \* rows before the first open
  \* ---- AgentConfigLoader and its file (config.py 45-118) ----------------
  clock,        \* the time, in units of the file system's timestamps
  config_file,  \* the catalog file: whether it exists, its content, mtime
  loader,       \* _config_cache and _last_mtime
  cfg_call,     \* the last call of the loader and what it did
  \* ---- the executor of a repair phase (validator.py 339-372) ------------
  pool          \* the futures of the phase: whether each call is queued,
                \* running or done, and its result; the futures the main
                \* thread has taken; the threads inside a storage write;
                \* history: the calls in the order of their completion

rotVars == <<rot_n, rot_c, rot_index, rot_count>>
thrVars == <<rot_lock, tpc, tcfg, tk, tprev, rot_calls, rot_forced>>
wrkVars == <<has_rotator, key_queue, wpc, key_index, attempt, wmodel,
             wcontent, wlast, tasks_left>>
storeVars == <<chunks, nodes>>
ingVars == <<ipc, full_len, target_chunk_tokens, group_size, current_idx,
             seg_len, chunks_data, current_level_summaries, level>>
repVars == <<rpc, issues, repair_group_size, max_depth, current_level, stats,
             level_0_results, repairs, last_repair>>
chkVars == <<cpc, strategy, doc, max_tokens, overlap_pct, chk_idx,
             prev_chunk, last_chunk, rebuilt, last_cut>>
navVars == <<nav_call, nav_out, nav_sub, alt_chunks, alt_out, alt_sub>>
fileVars == <<schema, clock, config_file, loader, cfg_call>>
poolVars == <<pool>>
docVars == <<storeVars, ingVars, repVars, chkVars, navVars, fileVars, poolVars>>
vars == <<rotVars, thrVars, wrkVars, docVars>>

Threads == 1..NumThreads
Workers == 1..NumKeys

(***************************************************************************)
(* ModelRotator.                                                           *)
(***************************************************************************)

\* `with self._lock:` admits a thread only while no thread holds the lock.
LockFree_NoLock(lock) == TRUE
LockFree(lock) == lock = 0

\* factory.py 32: if self._call_count >= self._calls_per_model
ShouldRotate_Late(count, c) == count > c
ShouldRotate(count, c) == count >= c

\* factory.py 34, 46: (self._index + 1) % len(self._configs)
NextIndex(i, n) == (i + 1) % n

\* __init__ (factory.py 20-25) for a pool of n configs, calls_per_model = c.
RotatorInit(n, c) ==
  /\ rot_n = n
  /\ rot_c = c
  /\ rot_index = 0
  /\ rot_count = 0

ThreadsInit ==
  /\ rot_lock = 0
  /\ tpc = [t \in Threads |-> "idle"]
  /\ tcfg = [t \in Threads |-> None]
  /\ tk = [t \in Threads |-> None]
  /\ tprev = [t \in Threads |-> None]
  /\ rot_calls = 0
  /\ rot_forced = FALSE

\* get_next_config, line 29: enter `with self._lock`.
GetAcquire(t) ==
  /\ tpc[t] = "idle"
  /\ rot_calls < MaxCalls
  /\ LockFree(rot_lock)
  /\ rot_lock' = t
  /\ tpc' = [tpc EXCEPT ![t] = "get_read"]
  /\ tk' = [tk EXCEPT ![t] = rot_calls]
  /\ rot_calls' = rot_calls + 1
  /\ UNCHANGED <<rotVars, tcfg, tprev, rot_forced, wrkVars, docVars>>

\* lines 30-31: config = self._configs[self._index]; self._call_count += 1
GetRead(t) ==
  /\ tpc[t] = "get_read"
  /\ tcfg' = [tcfg EXCEPT ![t] = rot_index]
  /\ rot_count' = rot_count + 1
  /\ tpc' = [tpc EXCEPT ![t] = "get_check"]
  /\ UNCHANGED <<rot_n, rot_c, rot_index, rot_lock, tk, tprev, rot_calls,
                 rot_forced, wrkVars, docVars>>

\* lines 32-40: rotate when the counter reached calls_per_model, leave the
\* `with` block and return config (the call's locals end with it).
GetCheck(t) ==
  /\ tpc[t] = "get_check"
  /\ IF ShouldRotate(rot_count, rot_c)
       THEN /\ rot_count' = 0
            /\ rot_index' = NextIndex(rot_index, rot_n)
       ELSE UNCHANGED <<rot_count, rot_index>>
  /\ rot_lock' = 0
  /\ tpc' = [tpc EXCEPT ![t] = "idle"]
  /\ tcfg' = [tcfg EXCEPT ![t] = None]
  /\ tk' = [tk EXCEPT ![t] = None]
  /\ UNCHANGED <<rot_n, rot_c, tprev, rot_calls, rot_forced, wrkVars, docVars>>

\* force_rotate, line 44: enter `with self._lock`.
ForceAcquire(t) ==
  /\ tpc[t] = "idle"
  /\ LockFree(rot_lock)
  /\ rot_lock' = t
  /\ tprev' = [tprev EXCEPT ![t] = rot_index]
  /\ rot_forced' = TRUE
  /\ tpc' = [tpc EXCEPT ![t] = "force_reset"]
  /\ UNCHANGED <<rotVars, tcfg, tk, rot_calls, wrkVars, docVars>>

\* line 45: self._call_count = 0
ForceReset(t) ==
  /\ tpc[t] = "force_reset"
  /\ rot_count' = 0
  /\ tpc' = [tpc EXCEPT ![t] = "force_advance"]
  /\ UNCHANGED <<rot_n, rot_c, rot_index, rot_lock, tcfg, tk, tprev, rot_calls,
                 rot_forced, wrkVars, docVars>>

\* lines 46-54: advance the index, log, leave the `with` block.
ForceAdvance(t) ==
  /\ tpc[t] = "force_advance"
  /\ rot_index' = NextIndex(rot_index, rot_n)
  /\ rot_lock' = 0
  /\ tpc' = [tpc EXCEPT ![t] = "idle"]
  /\ UNCHANGED <<rot_n, rot_c, rot_count, tcfg, tk, tprev, rot_calls,
                 rot_forced, wrkVars, docVars>>

\* The two methods as the lock makes them appear to a caller: one step each.
\* get_next_config returns the config at the index it found.
GetNextIndex(i, cnt, n, c) ==
  IF ShouldRotate(cnt + 1, c) THEN NextIndex(i, n) ELSE i
GetNextCount(cnt, c) ==
  IF ShouldRotate(cnt + 1, c) THEN 0 ELSE cnt + 1

(***************************************************************************)
(* Summary text.  A text is a sequence of tokens:                          *)
(*   "w"   a run of word characters        "md"  the word `markdown`       *)
(*   "nl"  white space                     "F"   three backticks           *)
(*   "TO"  <think>                         "TC"  </think>                  *)
(*   "H"   ###                             "Err" the word `Error`          *)
(*   "PE"  Provider returned error         "NE"  No endpoints found        *)
(*   "T1"  <think  (no closing bracket)    "T2"  >                         *)
(* A "T1" directly followed by a "T2" reads <think>: Join writes it "TO".  *)
(***************************************************************************)
WordTokens == {"w", "md"}

Contains(text, tok) == \E i \in 1..Len(text) : text[i] = tok

Without(text, tok) == SelectSeq(text, LAMBDA x : x # tok)

\* The string that is left when a part of it is cut out: what stood on the
\* two sides of the cut is adjacent now.
RECURSIVE Join(_)
Join(text) ==
  IF Len(text) < 2 THEN text
  ELSE IF text[1] = "T1" /\ text[2] = "T2"
    THEN <<"TO">> \o Join(Tail(Tail(text)))
    ELSE <<Head(text)>> \o Join(Tail(text))

\* str.strip(): drop white space at both ends.
RECURSIVE LStrip(_)
LStrip(text) ==
  IF text # <<>> /\ Head(text) = "nl" THEN LStrip(Tail(text)) ELSE text

RECURSIVE RStrip(_)
RStrip(text) ==
  IF text # <<>> /\ text[Len(text)] = "nl"
    THEN RStrip(SubSeq(text, 1, Len(text) - 1))
    ELSE text

Strip(text) == RStrip(LStrip(text))

\* re.sub(r"<think>.*?</think>", "", text, flags=re.DOTALL): every <think>
\* up to the nearest </think> after it goes; a <think> that is never closed,
\* and a </think> with no <think> before it, stay.
RECURSIVE RemoveThink(_)
RemoveThink(text) ==
  IF text = <<>> THEN <<>>
  ELSE IF Head(text) = "TO" /\ Contains(Tail(text), "TC")
    THEN LET close == CHOOSE i \in 2..Len(text) :
                        /\ text[i] = "TC"
                        /\ \A j \in 2..(i - 1) : text[j] # "TC"
         IN RemoveThink(SubSeq(text, close + 1, Len(text)))
    ELSE <<Head(text)>> \o RemoveThink(Tail(text))

\* the \w+ of the fence pattern: the word tokens that follow the backticks.
RECURSIVE DropWord(_)
DropWord(text) ==
  IF text # <<>> /\ Head(text) \in WordTokens THEN DropWord(Tail(text)) ELSE text

DropNewline(text) ==
  IF text # <<>> /\ Head(text) = "nl" THEN Tail(text) ELSE text

\* re.sub(r'```(?:\w+)?\n?', '', text)
RECURSIVE RemoveFences(_)
RemoveFences(text) ==
  IF text = <<>> THEN <<>>
  ELSE IF Head(text) = "F"
    THEN RemoveFences(DropNewline(DropWord(Tail(text))))
    ELSE <<Head(text)>> \o RemoveFences(Tail(text))

\* clean_summary_text (storage.py 7-23).  `if not text: return text` is the
\* first line: the empty text comes back as it is.  Each substitution scans
\* the text once, so a <think> that only the removals put together stays in
\* the result.
clean_summary_text(text) ==
  IF text = <<>> THEN text
  ELSE Strip(Join(Without(RemoveFences(RemoveThink(text)), "H")))

(***************************************************************************)
(* Summarizer worker: DatabaseValidator._get_summary_from_llm.             *)
(***************************************************************************)

\* What the LLM client may hand back as response.content.
Replies ==
  { <<"w">>,
    <<"TO", "w", "TC", "w">>,
    <<"TO", "w", "TC">>,
    <<"F", "md", "nl", "w">>,
    <<"w", "Err">>,
    <<"PE">>,
    <<"w", "NE">> }

\* validator.py 290: the reply carries a provider failure marker.
HasFailureMarker(content) == Contains(content, "PE") \/ Contains(content, "NE")

\* validator.py 308, 310: "Error generating summary."
ErrorSentinel == <<"Err", "w">>

\* validator.py 298-299: content.replace("###", "") through clean_summary_text.
SummaryOf(content) == clean_summary_text(Join(Without(content, "H")))

Returned(text) == [kind |-> "text", text |-> text]
Raised == [kind |-> "raise", text |-> <<>>]
NoOutcome == [kind |-> "none", text |-> <<>>]

\* __init__ (validator.py 23-38): the queue holds 0 .. num_keys-1.
WorkersInit(rotator, tasks) ==
  /\ has_rotator = rotator
  /\ key_queue = [i \in 1..NumKeys |-> i - 1]
  /\ wpc = [w \in Workers |-> "idle"]
  /\ key_index = [w \in Workers |-> None]
  /\ attempt = [w \in Workers |-> 0]
  /\ wmodel = [w \in Workers |-> None]
  /\ wcontent = [w \in Workers |-> <<>>]
  /\ wlast = [w \in Workers |-> NoOutcome]
  /\ tasks_left = tasks

\* The `finally` of line 311-312: self.key_queue.put(key_index), on the way
\* out of the call, however it ends (`how` is "return" or "raise").
Release_NotOnRaise(queue, key, how) ==
  IF how = "raise" THEN queue ELSE Append(queue, key)
Release(queue, key, how) == Append(queue, key)

\* self.key_queue.get() (line 275) takes the head off the queue.
QueueAfterGet_Peek(queue) == queue
QueueAfterGet(queue) == Tail(queue)

\* The call ends: the `finally` runs, the thread is free for the next prompt.
EndCall(w, outcome) ==
  /\ key_queue' = Release(key_queue, key_index[w], outcome.kind)
  /\ key_index' = [key_index EXCEPT ![w] = None]
  /\ wlast' = [wlast EXCEPT ![w] = outcome]
  /\ wpc' = [wpc EXCEPT ![w] = "idle"]
  /\ wcontent' = [wcontent EXCEPT ![w] = <<>>]
  /\ wmodel' = [wmodel EXCEPT ![w] = None]
  /\ attempt' = [attempt EXCEPT ![w] = 0]

\* An executor thread picks up a prompt; line 275: key_index = queue.get(),
\* which blocks while the queue is empty.
WStart(w) ==
  /\ wpc[w] = "idle"
  /\ tasks_left > 0
  /\ key_queue # <<>>
  /\ key_index' = [key_index EXCEPT ![w] = Head(key_queue)]
  /\ key_queue' = QueueAfterGet(key_queue)
  /\ tasks_left' = tasks_left - 1
  /\ wpc' = [wpc EXCEPT ![w] = "create"]
  /\ attempt' = [attempt EXCEPT ![w] = 0]
  /\ wmodel' = [wmodel EXCEPT ![w] = None]
  /\ wlast' = [wlast EXCEPT ![w] = NoOutcome]
  /\ UNCHANGED <<rotVars, thrVars, docVars, has_rotator, wcontent>>

\* line 278: AgentFactory.create_agent, inside `try ... finally` with no
\* `except`: when it raises, the exception leaves the call.
WCreate(w) ==
  /\ wpc[w] = "create"
  /\ \E created \in BOOLEAN :
       IF created
         THEN /\ wpc' = [wpc EXCEPT ![w] = "select"]
              /\ UNCHANGED <<key_queue, key_index, wlast, wcontent, attempt,
                             wmodel>>
         ELSE EndCall(w, Raised)
  /\ UNCHANGED <<rotVars, thrVars, docVars, has_rotator, tasks_left>>

\* lines 280-284: the attempt selects its model from the rotator, if any.
WSelect(w) ==
  /\ wpc[w] = "select"
  /\ attempt[w] < MaxRetries
  /\ IF has_rotator
       THEN /\ wmodel' = [wmodel EXCEPT ![w] = rot_index]
            /\ rot_index' = GetNextIndex(rot_index, rot_count, rot_n, rot_c)
            /\ rot_count' = GetNextCount(rot_count, rot_c)
       ELSE UNCHANGED <<wmodel, rot_index, rot_count>>
  /\ wpc' = [wpc EXCEPT ![w] = "run"]
  /\ UNCHANGED <<rot_n, rot_c, thrVars, docVars, has_rotator, key_queue, key_index,
                 attempt, wcontent, wlast, tasks_left>>

\* force_rotate (factory.py 42-46) as one step: the index it leaves.
ForcedIndex_Twice(i, n) == NextIndex(NextIndex(i, n), n)
ForcedIndex(i, n) == NextIndex(i, n)

\* lines 294-296 and 305-308: force_rotate, then the next attempt, or the
\* sentinel when this was the last one (line 308 or, after the loop, 310).
FailedAttempt(w) ==
  /\ IF has_rotator
       THEN /\ rot_count' = 0
            /\ rot_index' = ForcedIndex(rot_index, rot_n)
       ELSE UNCHANGED <<rot_index, rot_count>>
  /\ IF attempt[w] = MaxRetries - 1
       THEN EndCall(w, Returned(ErrorSentinel))
       ELSE /\ attempt' = [attempt EXCEPT ![w] = attempt[w] + 1]
            /\ wpc' = [wpc EXCEPT ![w] = "select"]
            /\ wcontent' = [wcontent EXCEPT ![w] = <<>>]
            /\ UNCHANGED <<key_queue, key_index, wlast, wmodel>>

\* lines 284-299: create_model and agent.run(prompt) end with a reply, or
\* raise (which the `except` of line 301 catches).
WRun(w) ==
  /\ wpc[w] = "run"
  /\ \/ \E content \in Replies :
          IF HasFailureMarker(content)
            THEN FailedAttempt(w)
            ELSE /\ EndCall(w, Returned(SummaryOf(content)))
                 /\ UNCHANGED <<rot_index, rot_count>>
     \/ FailedAttempt(w)
  /\ UNCHANGED <<rot_n, rot_c, thrVars, docVars, has_rotator, tasks_left>>

(***************************************************************************)
(* The store: tables chunks and summaries (storage.py).                    *)
(***************************************************************************)
NoParent == 0          \* parent_id IS NULL (row ids start at 1)

Max2(a, b) == IF a >= b THEN a ELSE b
Min2(a, b) == IF a <= b THEN a ELSE b

\* A row of table summaries.  `chunks` is the set of chunk ids the node is
\* linked to: {chunk_id}, {} for NULL, the whole group for a node written by
\* ingest_file (its chunk_ids field).
Node(text, lvl, parent, seq, chunk_ids) ==
  [text |-> text, level |-> lvl, parent |-> parent, seq |-> seq,
   chunks |-> chunk_ids]

NodeIds(tbl) == 1..Len(tbl)

\* storage.py 129-142: INSERT; the new row's id is lastrowid.
add_summary_Overwrites(tbl, text, lvl, parent, seq) ==
  IF tbl = <<>> THEN <<Node(text, lvl, parent, seq, {})>>
  ELSE [tbl EXCEPT ![Len(tbl)] = Node(text, lvl, parent, seq, {})]
add_summary(tbl, text, lvl, parent, seq) ==
  Append(tbl, Node(text, lvl, parent, seq, {}))

\* storage.py 144-150
link_summary_to_chunk_Unlinked(tbl, id, chunk_id) == tbl
link_summary_to_chunk(tbl, id, chunk_id) ==
  [tbl EXCEPT ![id].chunks = {chunk_id}]

\* storage.py 152-157: UPDATE, whatever the parent was before.
update_summary_parent(tbl, id, parent) == [tbl EXCEPT ![id].parent = parent]

\* storage.py 410-416
update_summary_text(tbl, id, text) == [tbl EXCEPT ![id].text = text]

\* the ids of a set of integers, in ascending order
RECURSIVE Ascending(_)
Ascending(S) ==
  IF S = {} THEN <<>>
  ELSE LET m == CHOOSE x \in S : \A y \in S : x <= y
       IN <<m>> \o Ascending(S \ {m})

\* consecutive groups of g elements of a list: range(0, len, g), [i : i + g]
Groups(ids, g) ==
  [j \in 1..((Len(ids) + g - 1) \div g) |->
     SubSeq(ids, (j - 1) * g + 1, Min2(j * g, Len(ids)))]

SeqToSet(q) == {q[i] : i \in 1..Len(q)}

(***************************************************************************)
(* The chunkers (chunking/base.py, fixed.py, llm.py).                      *)
(***************************************************************************)
\* ChunkResult(text, start_index, end_index); NoChunk: nothing yielded yet.
NoChunk == [text |-> <<>>, start_index |-> 0 - 1, end_index |-> 0 - 1]

\* no round of the SemanticBoundaryChunker yet
NoCut == [window |-> 0 - 1, cut_index |-> 0 - 1,
          next_chunk_start_index |-> 0 - 1]

\* what the model may answer for an index into a segment of n characters
RawIndexes(n) == (0 - 1)..(n + 1)

\* A text is a sequence of characters, each of one of three kinds under
\* the encoding of the TokenBuffer:
\*   "a"  a character that starts a token; with a "b" right after it the
\*        two characters are one token
\*   "b"  a character that continues the token of the "a" before it, and is
\*        a token of its own anywhere else
\*   "u"  a character whose bytes are spread over two tokens
\* and "R" is U+FFFD, which decode() writes for bytes that are no character.
CharKinds == {"a", "b", "u"}

Texts(n) == UNION {[1..k -> CharKinds] : k \in 0..n}

\* self.encoding.encode(text): the tokens of the text.
RECURSIVE Encode(_)
Encode(text) ==
  IF text = <<>> THEN <<>>
  ELSE IF Head(text) = "u" THEN <<"u1", "u2">> \o Encode(Tail(text))
  ELSE IF Head(text) = "a" /\ Len(text) >= 2 /\ text[2] = "b"
    THEN <<"ab">> \o Encode(Tail(Tail(text)))
    ELSE <<Head(text)>> \o Encode(Tail(text))

\* self.encoding.decode(tokens): bytes.decode(errors="replace").
RECURSIVE Decode(_)
Decode(tokens) ==
  IF tokens = <<>> THEN <<>>
  ELSE IF Head(tokens) = "ab" THEN <<"a", "b">> \o Decode(Tail(tokens))
  ELSE IF Head(tokens) = "u1"
    THEN IF Len(tokens) >= 2 /\ tokens[2] = "u2"
           THEN <<"u">> \o Decode(Tail(Tail(tokens)))
           ELSE <<"R">> \o Decode(Tail(tokens))
  ELSE IF Head(tokens) = "u2" THEN <<"R">> \o Decode(Tail(tokens))
  ELSE <<Head(tokens)>> \o Decode(Tail(tokens))

\* TokenBuffer.get_chunk_at (token_buffer.py 33-49)
get_chunk_at(most, text) ==
  IF text = <<>> THEN <<>>
  ELSE LET tokens == Encode(text)
       IN IF Len(tokens) <= most THEN text
          ELSE Decode(SubSeq(tokens, 1, most))

\* text[a:b] for 0 <= a, b
Slice(text, a, b) == SubSeq(text, a + 1, Min2(b, Len(text)))

\* `yield ChunkResult(...)`; for the fixed chunker the history keeps the
\* part of the text that does not overlap the chunk before it.
Yield(text, start, end) ==
  /\ prev_chunk' = last_chunk
  /\ last_chunk' = [text |-> text, start_index |-> start, end_index |-> end]
  /\ rebuilt' =
       LET overlap == IF last_chunk = NoChunk THEN 0
                      ELSE Max2(0, last_chunk.end_index - start)
       IN IF strategy = "fixed"
            THEN rebuilt \o SubSeq(text, overlap + 1, Len(text))
            ELSE rebuilt

\* chunk_text(text) is called on a chunker built with max_tokens (and
\* overlap_ratio); `if not text: return` (fixed.py 24-25, llm.py 26-27).
ChunkCall ==
  /\ cpc = "call"
  /\ cpc' = IF doc = <<>> THEN "done" ELSE "loop"
  /\ UNCHANGED <<strategy, doc, max_tokens, overlap_pct, chk_idx,
                 prev_chunk, last_chunk, rebuilt, last_cut>>
  /\ UNCHANGED <<rotVars, thrVars, wrkVars, storeVars, ingVars, repVars,
                 navVars, fileVars, poolVars>>

\* the loop test `while current_idx < text_len` holds
LoopTest == chk_idx < Len(doc)

\* One round of FixedTokenChunker.chunk_text (fixed.py 30-53).
\* int(chunk_len * self.overlap_ratio) is chunk_len * overlap_pct \div 100.
FixedRound ==
  /\ cpc = "loop"
  /\ strategy = "fixed"
  /\ LoopTest
  /\ LET char_window == max_tokens * CharsPerTokenEstimate
         raw_end == Min2(chk_idx + char_window, Len(doc))
         window_text == Slice(doc, chk_idx, raw_end)
         chunk == get_chunk_at(max_tokens, window_text)
         chunk_len == Len(chunk)
         abs_end == chk_idx + chunk_len
         overlap_chars == (chunk_len * overlap_pct) \div 100
     IN /\ Yield(chunk, chk_idx, abs_end)
        /\ IF abs_end >= Len(doc)
             THEN cpc' = "done" /\ UNCHANGED chk_idx
             ELSE cpc' = "loop" /\ chk_idx' = abs_end - overlap_chars
  /\ UNCHANGED <<strategy, doc, max_tokens, overlap_pct, last_cut>>
  /\ UNCHANGED <<rotVars, thrVars, wrkVars, storeVars, ingVars, repVars,
                 navVars, fileVars, poolVars>>

\* SemanticBoundaryChunker._find_cut_point (llm.py 64-101) on a window of n
\* characters when the reply parsed to raw_cut and raw_next.
llm_find_cut_point(n, raw_cut, raw_next) ==
  LET cut == Min2(Max2(0, raw_cut), n)
      next_start == Min2(Max2(0, raw_next), n)
  IN [cut_index |-> cut,
      next_chunk_start_index |->
        IF next_start >= cut THEN Max2(0, cut - DefaultOverlapChars)
        ELSE next_start]

\* what a reply that parses may lead to: each key is an integer or is
\* missing (parsed.get(key, default))
CutData(n) ==
  {llm_find_cut_point(n, c, x) :
     c \in RawIndexes(n), x \in RawIndexes(n) \cup {n - DefaultNextBack}}

\* One round of SemanticBoundaryChunker.chunk_text (llm.py 31-62) in which
\* _find_cut_point returns.
LlmRound ==
  /\ cpc = "loop"
  /\ strategy = "llm"
  /\ LoopTest
  /\ LET char_window == max_tokens * CharsPerTokenEstimate
         raw_end == Min2(chk_idx + char_window, Len(doc))
         window_text == Slice(doc, chk_idx, raw_end)
         valid_window == get_chunk_at(max_tokens, window_text)
     IN \E cut_data \in CutData(Len(valid_window)) :
          LET cut_rel == Min2(cut_data.cut_index, Len(valid_window))
              next_start_rel ==
                IF cut_data.next_chunk_start_index >= cut_rel
                  THEN Max2(0, cut_rel - DefaultOverlapChars)
                  ELSE cut_data.next_chunk_start_index
              abs_end == chk_idx + cut_rel
          IN /\ Yield(Slice(doc, chk_idx, abs_end), chk_idx, abs_end)
             /\ last_cut' = [window |-> Len(valid_window),
                             cut_index |-> cut_rel,
                             next_chunk_start_index |-> next_start_rel]
             /\ IF abs_end >= Len(doc)
                  THEN cpc' = "done" /\ UNCHANGED chk_idx
                  ELSE cpc' = "loop" /\ chk_idx' = chk_idx + next_start_rel
  /\ UNCHANGED <<strategy, doc, max_tokens, overlap_pct>>
  /\ UNCHANGED <<rotVars, thrVars, wrkVars, storeVars, ingVars, repVars,
                 navVars, fileVars, poolVars>>

\* ... and in which the call of the agent or the parsing of its reply
\* raises: _find_cut_point logs the error and raises it again (llm.py
\* 99-101), and chunk_text has no handler.
LlmRaises ==
  /\ cpc = "loop"
  /\ strategy = "llm"
  /\ LoopTest
  /\ cpc' = "raised"
  /\ UNCHANGED <<strategy, doc, max_tokens, overlap_pct, chk_idx,
                 prev_chunk, last_chunk, rebuilt, last_cut>>
  /\ UNCHANGED <<rotVars, thrVars, wrkVars, storeVars, ingVars, repVars,
                 navVars, fileVars, poolVars>>

ChunkerIdle ==
  /\ cpc = "idle"
  /\ strategy = "fixed"
  /\ doc = <<>>
  /\ max_tokens = 1
  /\ overlap_pct = 0
  /\ chk_idx = 0
  /\ prev_chunk = NoChunk
  /\ last_chunk = NoChunk
  /\ rebuilt = <<>>
  /\ last_cut = NoCut

(***************************************************************************)
(* Indexer.ingest_file (indexer.py).                                       *)
(***************************************************************************)

\* Python's s[a:b] on a string of n characters: the length of the slice.
SliceIndex(i, n) == IF i < 0 THEN Max2(i + n, 0) ELSE Min2(i, n)
SliceLen(a, b, n) == Max2(SliceIndex(b, n) - SliceIndex(a, n), 0)

\* SmartIngestor.find_cut_point (smart_ingest.py 60-86) on a segment of n
\* characters, when the model answered raw_cut and raw_next.
find_cut_point(n, raw_cut, raw_next) ==
  LET cut == Max2(0, Min2(raw_cut, n))
      next == Max2(0, Min2(raw_next, n))
  IN [cut_index |-> cut,
      next_chunk_start_index |->
        IF next >= cut THEN Max2(0, cut - MinOverlap) ELSE next]

\* smart_ingest.py 88-101: the fallback when the call or the parsing raised.
find_cut_point_fallback(n) ==
  [cut_index |-> n, next_chunk_start_index |-> Max2(0, n - FallbackOverlap)]

Decisions(n) ==
  {find_cut_point(n, c, x) : c \in RawIndexes(n), x \in RawIndexes(n)}
    \cup {find_cut_point_fallback(n)}

\* chunks_data.append(...).  The model keeps the first MaxChunks chunks.
AppendChunk(data, nonempty) ==
  IF Len(data) < MaxChunks THEN Append(data, nonempty) ELSE data

\* indexer.py 66: real_next_start = current_idx - next_chunk_start_index
RealNextStart(idx, next) == idx - next

\* What self.agent.run may hand back to summarize_text (indexer.py 20-23).
IngestReplies ==
  { <<"w">>, <<"TO", "w", "TC">>,
    <<"F", "md", "nl", "w">>, <<"PE">> }

\* The same with more of the texts a model may write around or instead of a
\* summary: a fence with another tag, a fence with no tag, the sentence the
\* summarizer worker returns when it gives up, and markup next to a tag.
AnyReplies ==
  IngestReplies \cup
    { <<"F", "w", "nl", "w">>,
      <<"F", "nl", "w">>,
      <<"Err", "w">>,
      <<"T1", "H", "T2", "w", "TC", "w">> }

\* summarize_text: str(response.content), as it is.
summarize_text(content) == content

\* storage.add_summaries(payloads): one row per payload, parent NULL,
\* sequence_index the payload's position in the batch.
RECURSIVE add_summaries(_, _, _, _, _)
add_summaries(tbl, texts, lvl, links, k) ==
  IF k > Len(texts) THEN tbl
  ELSE add_summaries(
         Append(tbl, Node(texts[k], lvl, NoParent, k - 1, links[k])),
         texts, lvl, links, k + 1)

\* the ids add_summaries returns for a batch of k rows added to tbl
NewIds(tbl, k) == [j \in 1..k |-> Len(tbl) + j]

IngestIdle ==
  /\ ipc = "idle"
  /\ full_len = 0
  /\ target_chunk_tokens = 1
  /\ group_size = 1
  /\ current_idx = 0
  /\ seg_len = 0
  /\ chunks_data = <<>>
  /\ current_level_summaries = <<>>
  /\ level = 0

\* ingest_file is called on a file of n characters (lines 37-46).
IngestInit(n, target, g) ==
  /\ ipc = "chunk_head"
  /\ full_len = n
  /\ target_chunk_tokens = target
  /\ group_size = g
  /\ current_idx = 0
  /\ seg_len = 0
  /\ chunks_data = <<>>
  /\ current_level_summaries = <<>>
  /\ level = 0

StoreInit ==
  /\ chunks = <<>>
  /\ nodes = <<>>

\* The locals of the chunking loop are not read after it: the model clears
\* them.
LoopLocalsDead ==
  /\ full_len' = 0
  /\ current_idx' = 0
  /\ seg_len' = 0

\* The same for the locals of the summary phases when ingest_file is left.
IngestLocalsDead ==
  /\ group_size' = 1
  /\ chunks_data' = <<>>
  /\ current_level_summaries' = <<>>
  /\ level' = 0

\* lines 111-136: the loop is over; storage.add_chunks(chunks_payload) gives
\* the chunks the ids start_id, start_id + 1, ...
StoreChunks(data) ==
  /\ chunks' = chunks \o data
  /\ chunks_data' = data
  /\ ipc' = "level0"
  /\ LoopLocalsDead

\* lines 48-61: the loop test, the segment, the last chunk of the file.
ChunkHead ==
  /\ ipc = "chunk_head"
  /\ LET lookahead_chars == target_chunk_tokens * LookaheadFactor
         end_candidate == Min2(current_idx + lookahead_chars, full_len)
         segment == SliceLen(current_idx, end_candidate, full_len)
     IN IF current_idx >= full_len
          THEN StoreChunks(chunks_data)
          ELSE IF end_candidate = full_len
            THEN StoreChunks(AppendChunk(chunks_data, segment > 0))
            ELSE /\ seg_len' = segment
                 /\ ipc' = "chunk_cut"
                 /\ UNCHANGED <<chunks, chunks_data, full_len, current_idx>>
  /\ UNCHANGED <<rotVars, thrVars, wrkVars, chkVars, navVars, fileVars, poolVars, nodes, target_chunk_tokens,
                 group_size, current_level_summaries, level, repVars>>

\* lines 63-90: the decision of find_cut_point, the chunk, the next start.
\* Leaving by `break` at line 87 and failing the loop test are the same exit.
ChunkCut ==
  /\ ipc = "chunk_cut"
  /\ \E decision \in Decisions(seg_len) :
       LET real_cut_index == current_idx + decision.cut_index
           next_start ==
             RealNextStart(current_idx, decision.next_chunk_start_index)
           real_next_start ==
             IF next_start > real_cut_index THEN real_cut_index ELSE next_start
           chunk_len == SliceLen(current_idx, real_cut_index, full_len)
       IN /\ chunks_data' = AppendChunk(chunks_data, chunk_len > 0)
          /\ current_idx' =
               IF real_next_start < full_len /\ chunk_len = 0
                 THEN real_next_start + ForceAdvanceChars
                 ELSE real_next_start
  /\ seg_len' = 0
  /\ ipc' = "chunk_head"
  /\ UNCHANGED <<rotVars, thrVars, wrkVars, chkVars, navVars, fileVars, poolVars, storeVars, full_len,
                 target_chunk_tokens, group_size, current_level_summaries,
                 level, repVars>>

\* the ids of the chunks this call stored
StoredChunkIds == [i \in 1..Len(chunks_data) |->
                     Len(chunks) - Len(chunks_data) + i]

\* lines 179, 234: the hierarchy loop runs while more than one node is left.
AfterLevel(ids) == IF Len(ids) > 1 THEN "hier" ELSE "done"

\* the level `lvl` has been written as the rows `ids`
LevelWritten(ids, lvl) ==
  /\ ipc' = AfterLevel(ids)
  /\ IF Len(ids) > 1
       THEN /\ current_level_summaries' = ids
            /\ level' = lvl + 1
            /\ chunks_data' = <<>>
            /\ UNCHANGED group_size
       ELSE IngestLocalsDead

\* summarize_text has no handler around agent.run: when a call raises,
\* ingest_file raises, before the batch of the level is written.
IngestRaises ==
  /\ ipc' = "aborted"
  /\ IngestLocalsDead
  /\ UNCHANGED nodes

\* lines 139-176: one summary per group of group_size chunks, then one
\* batch write of the level-0 rows.
IngestLevel0From(R) ==
  /\ ipc = "level0"
  /\ LET groups == Groups(StoredChunkIds, group_size)
     IN \/ \E replies \in [1..Len(groups) -> R] :
             /\ nodes' = add_summaries(nodes,
                           [j \in 1..Len(groups) |-> summarize_text(replies[j])],
                           0, [j \in 1..Len(groups) |-> SeqToSet(groups[j])], 1)
             /\ LevelWritten(NewIds(nodes, Len(groups)), 0)
        \/ Len(groups) > 0 /\ IngestRaises
  /\ UNCHANGED <<rotVars, thrVars, wrkVars, chkVars, navVars, fileVars, poolVars, chunks, full_len,
                 target_chunk_tokens, current_idx, seg_len, repVars>>

IngestLevel0 == IngestLevel0From(IngestReplies)

\* lines 205-217: the children of batch j get parent_ids[j].
SetParents(tbl, groups, parent_ids) ==
  [i \in 1..Len(tbl) |->
     IF \E j \in 1..Len(groups) : i \in SeqToSet(groups[j])
       THEN [tbl[i] EXCEPT !.parent =
               parent_ids[CHOOSE j \in 1..Len(groups) : i \in SeqToSet(groups[j])]]
       ELSE tbl[i]]

\* lines 179-234: one round of the loop `while len(...) > 1`: one summary
\* per group of group_size nodes, the batch write of the parents, the
\* children's parent_id, level += 1.  The loop has no other exit: with
\* group_size = 1 every round writes as many rows as the one before, which
\* the model follows up to MaxNodes rows.
IngestHierarchy ==
  /\ ipc = "hier"
  /\ LET groups == Groups(current_level_summaries, group_size)
         parent_ids == NewIds(nodes, Len(groups))
     IN /\ Len(nodes) + Len(groups) <= MaxNodes
        /\ \/ \E replies \in [1..Len(groups) -> IngestReplies] :
                /\ nodes' = SetParents(
                     add_summaries(nodes,
                       [j \in 1..Len(groups) |-> summarize_text(replies[j])],
                       level, [j \in 1..Len(groups) |-> {}], 1),
                     groups, parent_ids)
                /\ LevelWritten(parent_ids, level)
           \/ IngestRaises
  /\ UNCHANGED <<rotVars, thrVars, wrkVars, chkVars, navVars, fileVars, poolVars, chunks, full_len,
                 target_chunk_tokens, current_idx, seg_len, repVars>>

\* The summary phases of ingest_file as a function: the rows a call that
\* returns writes for n stored chunks (ids 1..n) into an empty table, each
\* with the text `text`.  Lines 179-234: the levels above the rows `ids`.
RECURSIVE ingest_levels(_, _, _, _, _)
ingest_levels(tbl, ids, g, lvl, text) ==
  IF Len(ids) <= 1 THEN tbl
  ELSE LET groups == Groups(ids, g)
           parent_ids == NewIds(tbl, Len(groups))
       IN ingest_levels(
            SetParents(
              add_summaries(tbl, [j \in 1..Len(groups) |-> text], lvl,
                            [j \in 1..Len(groups) |-> {}], 1),
              groups, parent_ids),
            parent_ids, g, lvl + 1, text)

\* lines 139-234
ingest_summaries(n, g, text) ==
  LET groups == Groups([c \in 1..n |-> c], g)
  IN ingest_levels(
       add_summaries(<<>>, [j \in 1..Len(groups) |-> text], 0,
                     [j \in 1..Len(groups) |-> SeqToSet(groups[j])], 1),
       NewIds(<<>>, Len(groups)), g, 1, text)

NextIngest ==
  \/ ChunkHead
  \/ ChunkCut
  \/ IngestLevel0
  \/ IngestHierarchy

(***************************************************************************)
(* DatabaseValidator.validate and repair (validator.py).                   *)
(***************************************************************************)
NoIssues == [provider_error |-> <<>>, think_blocks |-> <<>>,
             markdown_prefix |-> <<>>, missing_level_0 |-> <<>>]

NoStats == [cleaned |-> 0, regenerated |-> 0, failed |-> 0,
            generated_level_0 |-> 0, generated_hierarchy |-> 0]

NoResults == [success |-> 0, failed |-> 0]

\* history of the repair calls: the arguments of the latest call; `repeat`:
\* it came right after a call with the same arguments that had returned
\* with failed = 0; `dry_run`: it was called with dry_run = True
NoRepair == [group_size |-> 1, max_depth |-> 0, repeat |-> FALSE,
             dry_run |-> FALSE, rounds |-> 0, top |-> 0]

\* storage.get_max_summary_level(): the highest level in table summaries,
\* None when the table is empty.
get_max_summary_level(tbl) ==
  IF tbl = <<>> THEN None
  ELSE CHOOSE l \in {tbl[i].level : i \in NodeIds(tbl)} :
         \A i \in NodeIds(tbl) : tbl[i].level <= l

\* storage.get_chunks_without_summaries(): the chunks that no level-0 node
\* references, in id order.
get_chunks_without_summaries(tbl, chs) ==
  Ascending({c \in 1..Len(chs) :
               ~\E i \in NodeIds(tbl) : tbl[i].level = 0 /\ c \in tbl[i].chunks})

\* rows in the order of sequence_index, then id
RECURSIVE OrderBySeq(_, _)
OrderBySeq(tbl, S) ==
  IF S = {} THEN <<>>
  ELSE LET m == CHOOSE x \in S : \A y \in S :
                  \/ tbl[x].seq < tbl[y].seq
                  \/ tbl[x].seq = tbl[y].seq /\ x <= y
       IN <<m>> \o OrderBySeq(tbl, S \ {m})

\* storage.get_orphan_summaries(): the nodes at the current max level with
\* no parent, ordered for regrouping.
get_orphan_summaries(tbl) ==
  OrderBySeq(tbl, {i \in NodeIds(tbl) :
                     /\ tbl[i].level = get_max_summary_level(tbl)
                     /\ tbl[i].parent = NoParent})

\* storage.get_next_sequence_index(level): one past the highest
\* sequence_index at the level, 0 when the level has no node.
get_next_sequence_index(tbl, lvl) ==
  LET used == {tbl[i].seq : i \in {j \in NodeIds(tbl) : tbl[j].level = lvl}}
  IN IF used = {} THEN 0
     ELSE (CHOOSE m \in used : \A x \in used : x <= m) + 1

\* storage.py 332-366: the three classes of get_broken_summaries.
IsProviderError(text) == text # <<>> /\ Contains(text, "PE")

IsThinkBlock(text) ==
  /\ text # <<>>
  /\ ~Contains(text, "PE")
  /\ Contains(text, "TO") \/ Contains(text, "TC")

IsMarkdownPrefix(text) ==
  /\ text # <<>>
  /\ ~Contains(text, "PE")
  /\ ~(Contains(text, "TO") \/ Contains(text, "TC"))
  /\ LET t == Strip(text) IN Len(t) >= 2 /\ t[1] = "F" /\ t[2] = "md"

get_broken_summaries(tbl) ==
  [provider_error |->
     Ascending({i \in NodeIds(tbl) : IsProviderError(tbl[i].text)}),
   think_blocks |->
     Ascending({i \in NodeIds(tbl) : IsThinkBlock(tbl[i].text)}),
   markdown_prefix |->
     Ascending({i \in NodeIds(tbl) : IsMarkdownPrefix(tbl[i].text)})]

\* validator.py 40-66.  (The orphan ids and the max level it also reports
\* are read again from the store by repair.)
validate(tbl, chs) ==
  LET broken == get_broken_summaries(tbl)
  IN [provider_error |-> broken.provider_error,
      think_blocks |-> broken.think_blocks,
      markdown_prefix |-> broken.markdown_prefix,
      missing_level_0 |-> get_chunks_without_summaries(tbl, chs)]

\* validator.py 115-116: the text is rewritten when the cleaned text is not
\* empty and differs from it.
ShouldClean(text) ==
  clean_summary_text(text) # <<>> /\ clean_summary_text(text) # text

\* Phase 1 (validator.py 106-120) over the cleanable ids.
CleanPhase(tbl, ids) ==
  [i \in NodeIds(tbl) |->
     IF i \in ids /\ ShouldClean(tbl[i].text)
       THEN [tbl[i] EXCEPT !.text = clean_summary_text(tbl[i].text)]
       ELSE tbl[i]]

\* validator.py 114-119: the loop of Phase 1 writes `if not dry_run`.
clean_phase_Unguarded(tbl, ids, dry_run) == CleanPhase(tbl, ids)
clean_phase(tbl, ids, dry_run) ==
  IF dry_run THEN tbl ELSE CleanPhase(tbl, ids)

\* How a call of _get_summary_from_llm may end: a cleaned reply, the
\* sentinel, or the exception of create_agent.
CallOutcomes ==
  {Returned(SummaryOf(content)) :
     content \in {c \in Replies : ~HasFailureMarker(c)}}
    \cup {Returned(ErrorSentinel), Raised}

\* validator.py 232, 260, 351, 452: `text and "Error" not in text`; a call
\* that raised counts as failed (lines 239, 267, 369).
Accepted(outcome) ==
  /\ outcome.kind = "text"
  /\ outcome.text # <<>>
  /\ ~Contains(outcome.text, "Err")

\* storage.py 368-408 and validator.py 222, 249: a prompt is submitted for
\* a level-0 node linked to a chunk with text, and for a higher node with
\* children.
HasContext(tbl, chs, i) ==
  IF tbl[i].level = 0
    THEN \E c \in tbl[i].chunks : chs[c]
    ELSE \E j \in NodeIds(tbl) : tbl[j].parent = i

\* validator.py 348-364, for the missing chunks ids[k..] in order.
RECURSIVE FillLeaves(_, _, _, _)
FillLeaves(tbl, ids, outs, k) ==
  IF k > Len(ids) THEN tbl
  ELSE IF Accepted(outs[ids[k]])
    THEN FillLeaves(
           link_summary_to_chunk(
             add_summary(tbl, outs[ids[k]].text, 0, NoParent,
                         get_next_sequence_index(tbl, 0)),
             Len(tbl) + 1, ids[k]),
           ids, outs, k + 1)
    ELSE FillLeaves(tbl, ids, outs, k + 1)

\* validator.py 460-461: update_summary_parent for the children batch[k..].
RECURSIVE LinkChildren(_, _, _, _)
LinkChildren(tbl, batch, parent_id, k) ==
  IF k > Len(batch) THEN tbl
  ELSE LinkChildren(update_summary_parent(tbl, batch[k], parent_id),
                    batch, parent_id, k + 1)

\* validator.py 452-469, for the batches k.. in order: a parent for each
\* accepted summary, with the batch's ordinal as sequence_index.
RECURSIVE SaveParents(_, _, _, _, _)
SaveParents(tbl, batches, outs, lvl, k) ==
  IF k > Len(batches) THEN tbl
  ELSE IF Accepted(outs[k])
    THEN SaveParents(
           LinkChildren(add_summary(tbl, outs[k].text, lvl, NoParent, k - 1),
                        batches[k], Len(tbl) + 1, 1),
           batches, outs, lvl, k + 1)
    ELSE SaveParents(tbl, batches, outs, lvl, k + 1)

CountAccepted(outs) == Cardinality({x \in DOMAIN outs : Accepted(outs[x])})
CountFailed(outs) == Cardinality({x \in DOMAIN outs : ~Accepted(outs[x])})

RepairIdle ==
  /\ rpc = "idle"
  /\ issues = NoIssues
  /\ repair_group_size = 1
  /\ max_depth = 0
  /\ current_level = 0
  /\ stats = NoStats
  /\ level_0_results = NoResults
  /\ repairs = 0
  /\ last_repair = NoRepair

\* repair(issues=validate(), group_size=g, max_depth=d) is called
\* (benchmarks/base.py 191, 214); lines 84-119: the stats, then Phase 1.
BeginRepair(g, d) ==
  /\ ipc \in {"done", "aborted"}
  /\ rpc \in {"idle", "done", "aborted"}
  /\ LET found == validate(nodes, chunks)
         cleanable == SeqToSet(found.think_blocks \o found.markdown_prefix)
     IN /\ issues' = found
        /\ nodes' = clean_phase(nodes, cleanable, FALSE)
        /\ stats' = [NoStats EXCEPT !.cleaned =
                       Cardinality({i \in cleanable : ShouldClean(nodes[i].text)})]
  /\ repair_group_size' = g
  /\ max_depth' = d
  /\ level_0_results' = NoResults
  /\ last_repair' =
       [group_size |-> g, max_depth |-> d,
        repeat |-> /\ rpc = "done"
                   /\ ~last_repair.dry_run
                   /\ stats.failed = 0
                   /\ last_repair.group_size = g
                   /\ last_repair.max_depth = d,
        dry_run |-> FALSE, rounds |-> 0, top |-> 0]
  /\ rpc' = "regenerate"
  /\ UNCHANGED <<rotVars, thrVars, wrkVars, chkVars, navVars, fileVars, poolVars, chunks, ingVars, current_level>>

\* one of the first MaxRepairs repair calls on the store
StartRepair(g, d) ==
  /\ repairs < MaxRepairs
  /\ BeginRepair(g, d)
  /\ repairs' = repairs + 1

\* a further repair call; the model counts the calls up to MaxRepairs
RepairAgain(g, d) ==
  /\ repairs = MaxRepairs
  /\ BeginRepair(g, d)
  /\ UNCHANGED repairs

\* Phase 2 (lines 121-136, 195-271): one call per provider_error node that
\* has a context; an accepted text replaces the node's text.
Regenerate ==
  /\ rpc = "regenerate"
  /\ LET items == {i \in SeqToSet(issues.provider_error) :
                     HasContext(nodes, chunks, i)}
     IN \E outs \in [items -> CallOutcomes] :
          /\ nodes' = [i \in NodeIds(nodes) |->
                         IF i \in items /\ Accepted(outs[i])
                           THEN update_summary_text(nodes, i, outs[i].text)[i]
                           ELSE nodes[i]]
          /\ stats' = [stats EXCEPT !.regenerated = CountAccepted(outs),
                                    !.failed = CountFailed(outs)]
  /\ rpc' = "fill"
  /\ UNCHANGED <<rotVars, thrVars, wrkVars, chkVars, navVars, fileVars, poolVars, chunks, ingVars, issues,
                 repair_group_size, max_depth, current_level,
                 level_0_results, repairs, last_repair>>

\* repair is left (it returns stats, or raises): its locals are not read
\* again and the model clears them.
RepairLeft(how) ==
  /\ rpc' = how
  /\ issues' = NoIssues
  /\ repair_group_size' = 1
  /\ max_depth' = 0
  /\ current_level' = 0

\* Phase 3 (lines 138-155, 314-373), then the test of Phase 4 (157-172) and
\* the first line of _complete_hierarchy_parallel (413).
Fill ==
  /\ rpc = "fill"
  /\ \E outs \in [SeqToSet(issues.missing_level_0) -> CallOutcomes] :
       LET filled == FillLeaves(nodes, issues.missing_level_0, outs, 1)
           orphan_ids == get_orphan_summaries(filled)
           current_max_level == get_max_summary_level(filled)
       IN /\ nodes' = filled
          /\ level_0_results' = [success |-> CountAccepted(outs),
                                 failed |-> CountFailed(outs)]
          /\ stats' = [stats EXCEPT
                         !.generated_level_0 = CountAccepted(outs),
                         !.failed = stats.failed + CountFailed(outs)]
          /\ IF Len(orphan_ids) > 1 /\ current_max_level < max_depth
               THEN /\ rpc' = "extend"
                    /\ current_level' = current_max_level
                    /\ UNCHANGED <<issues, repair_group_size, max_depth>>
               ELSE RepairLeft("done")
  /\ UNCHANGED <<rotVars, thrVars, wrkVars, chkVars, navVars, fileVars, poolVars, chunks, ingVars, repairs,
                 last_repair>>

\* validator.py 415: `while current_level < max_depth`.
LoopGoesOn_OneMore(lvl, d) == lvl <= d
LoopGoesOn(lvl, d) == lvl < d

\* history: one more round of the loop of _complete_hierarchy_parallel
\* has begun; top is get_max_summary_level() as the first round found it
\* (413).
RoundCounted(last, lvl) ==
  [last EXCEPT !.rounds = @ + 1, !.top = IF last.rounds = 0 THEN lvl ELSE @]

\* One round of _complete_hierarchy_parallel (lines 415-471).  executor.map
\* hands on the exception of a call that raised: repair ends there, with
\* nothing of the round saved.  The counts of the rounds are kept in stats
\* (they are added to it at lines 182-183 when the loop is over).
ExtendRound ==
  /\ rpc = "extend"
  /\ LET orphan_ids == get_orphan_summaries(nodes)
         batches_ids == Groups(orphan_ids, repair_group_size)
     IN IF Len(orphan_ids) <= 1
          THEN /\ RepairLeft("done")
               /\ UNCHANGED <<nodes, stats, last_repair>>
          ELSE \E outs \in [1..Len(batches_ids) -> CallOutcomes] :
                 /\ last_repair' = RoundCounted(last_repair, current_level)
                 /\ IF \E k \in 1..Len(batches_ids) : outs[k] = Raised
                   THEN /\ RepairLeft("aborted")
                        /\ UNCHANGED <<nodes, stats>>
                   ELSE /\ nodes' = SaveParents(nodes, batches_ids, outs,
                                                current_level + 1, 1)
                        /\ stats' = [stats EXCEPT
                             !.generated_hierarchy =
                                stats.generated_hierarchy + CountAccepted(outs),
                             !.failed = stats.failed + CountFailed(outs)]
                        /\ IF LoopGoesOn(current_level + 1, max_depth)
                             THEN /\ rpc' = "extend"
                                  /\ current_level' = current_level + 1
                                  /\ UNCHANGED <<issues, repair_group_size,
                                                 max_depth>>
                             ELSE RepairLeft("done")
  /\ UNCHANGED <<rotVars, thrVars, wrkVars, chkVars, navVars, fileVars, poolVars, chunks, ingVars, level_0_results,
                 repairs>>

\* validator.py 399-411: the number of parents the rounds would create.
RECURSIVE estimate_hierarchy(_, _, _, _)
estimate_hierarchy(orphan_count, lvl, g, d) ==
  IF orphan_count > 1 /\ lvl < d
    THEN LET new_count == (orphan_count + g - 1) \div g
         IN new_count + estimate_hierarchy(new_count, lvl + 1, g, d)
    ELSE 0

\* repair(dry_run=True, issues=validate(), group_size=g, max_depth=d): every
\* phase returns its count at once (lines 201-203, 331-333, 399-411); no
\* LLM call is made, so the call is one step.
DryRepair(g, d) ==
  /\ ipc \in {"done", "aborted"}
  /\ rpc \in {"idle", "done", "aborted"}
  /\ repairs < MaxRepairs
  /\ repairs' = repairs + 1
  /\ LET found == validate(nodes, chunks)
         cleanable == SeqToSet(found.think_blocks \o found.markdown_prefix)
         missing == Len(found.missing_level_0)
         orphan_count == Len(get_orphan_summaries(nodes)) + missing
         current_max_level == get_max_summary_level(nodes)
     IN /\ nodes' = clean_phase(nodes, cleanable, TRUE)
        /\ stats' =
             [cleaned |->
                Cardinality({i \in cleanable : ShouldClean(nodes[i].text)}),
              regenerated |-> Len(found.provider_error),
              failed |-> 0,
              generated_level_0 |-> missing,
              generated_hierarchy |->
                IF orphan_count > 1 /\ current_max_level < d
                  THEN estimate_hierarchy(orphan_count, current_max_level,
                                          g, d)
                  ELSE 0]
        /\ level_0_results' = [success |-> missing, failed |-> 0]
  /\ RepairLeft("done")
  /\ last_repair' = [group_size |-> g, max_depth |-> d, repeat |-> FALSE,
                     dry_run |-> TRUE, rounds |-> 0, top |-> 0]
  /\ UNCHANGED <<rotVars, thrVars, wrkVars, chkVars, navVars, fileVars, poolVars, chunks, ingVars>>

NextRepair ==
  \/ \E g \in 1..MaxGroup, d \in 0..MaxDepth : StartRepair(g, d)
  \/ Regenerate
  \/ Fill
  \/ ExtendRound

(***************************************************************************)
(* The navigator: RLMTools (tools/rlm_tools.py) and the queries of the     *)
(* store it reads (storage.py 159-330).                                    *)
(***************************************************************************)
SubAgentRetries == 3   \* _spawn_sub_agent(max_retries=3)

\* The string a tool returns, by its parts: which message it is, the ids,
\* the level and the texts written into it; ToolRaised: the tool raised.
Out(kind, id, lvl, arg, text, rows) ==
  [kind |-> kind, id |-> id, level |-> lvl, arg |-> arg, text |-> text,
   rows |-> rows]
NoOut == Out("none", None, None, <<>>, <<>>, <<>>)
ToolRaised == Out("raise", None, None, <<>>, <<>>, <<>>)

NoCall == [op |-> "none", id |-> None, query |-> <<>>, direction |-> "none"]

\* storage.get_root_summaries (159-174): (id, text) of the nodes of the
\* highest level, by sequence_index.
get_root_summaries(tbl) ==
  LET max_level == get_max_summary_level(tbl)
  IN IF max_level < 0 THEN <<>>
     ELSE LET ids == OrderBySeq(tbl, {i \in NodeIds(tbl) :
                                        tbl[i].level = max_level})
          IN [j \in 1..Len(ids) |-> <<ids[j], tbl[ids[j]].text>>]

\* storage.get_node_metadata (176-187); found = FALSE stands for None.
get_node_metadata(tbl, summary_id) ==
  IF summary_id \in NodeIds(tbl)
    THEN [found |-> TRUE, id |-> summary_id, level |-> tbl[summary_id].level,
          text |-> tbl[summary_id].text]
    ELSE [found |-> FALSE, id |-> None, level |-> None, text |-> <<>>]

\* storage.get_child_summaries (189-197)
get_child_summaries(tbl, parent_id) ==
  LET ids == OrderBySeq(tbl, {i \in NodeIds(tbl) : tbl[i].parent = parent_id})
  IN [j \in 1..Len(ids) |-> <<ids[j], tbl[ids[j]].text>>]

\* storage.get_linked_chunk_id (199-208): column chunk_id, None for NULL
\* and for an unknown node.
get_linked_chunk_id(tbl, summary_id) ==
  IF summary_id \in NodeIds(tbl) /\ tbl[summary_id].chunks # {}
    THEN CHOOSE c \in tbl[summary_id].chunks : TRUE
    ELSE None

\* storage.get_chunk_text (275-280); the empty text stands for None too
\* (the caller tests `not raw_text`).
get_chunk_text(chs, chunk_id) ==
  IF chunk_id \in 1..Len(chs) THEN chs[chunk_id] ELSE <<>>

\* storage.get_adjacent_nodes (210-273): the parent, and the siblings next
\* to the node among the rows of its parent and level.
get_adjacent_nodes(tbl, summary_id) ==
  IF summary_id \notin NodeIds(tbl)
    THEN [prev |-> None, next |-> None, parent |-> None]
    ELSE LET row == tbl[summary_id]
             sibs == {i \in NodeIds(tbl) :
                        tbl[i].parent = row.parent /\ tbl[i].level = row.level}
             before == OrderBySeq(tbl, {i \in sibs : tbl[i].seq < row.seq})
             after == OrderBySeq(tbl, {i \in sibs : tbl[i].seq > row.seq})
         IN [parent |-> IF row.parent = NoParent THEN None ELSE row.parent,
             prev |-> IF before = <<>> THEN None ELSE before[Len(before)],
             next |-> IF after = <<>> THEN None ELSE after[1]]

\* storage.get_summary (295-303)
get_summary(tbl, summary_id) ==
  IF summary_id \in NodeIds(tbl) THEN tbl[summary_id].text ELSE <<>>

\* summary_text LIKE '%query%'
Like(text, query) ==
  \E i \in 1..(Len(text) + 1) :
    /\ i + Len(query) - 1 <= Len(text)
    /\ SubSeq(text, i, i + Len(query) - 1) = query

\* storage.search_summaries (318-326): (id, level, text) of the matches
\* (the tables of the model stay below LIMIT 10).
storage_search_summaries(tbl, query) ==
  LET ids == Ascending({i \in NodeIds(tbl) : Like(tbl[i].text, query)})
  IN [j \in 1..Len(ids) |-> <<ids[j], tbl[ids[j]].level, tbl[ids[j]].text>>]

\* RLMTools.inspect_document_hierarchy (32-44)
inspect_document_hierarchy(tbl) ==
  LET roots == get_root_summaries(tbl)
  IN IF roots = <<>> THEN Out("empty_index", None, None, <<>>, <<>>, <<>>)
     ELSE Out("roots", None, None, <<>>, <<>>, roots)

\* What a call does besides returning its string: the sub-agent it used
\* and the state it leaves the rotator in.
NoSubAgent == [spawned |-> FALSE, replies |-> <<>>, log |-> <<>>]
SubAgent(got) == [spawned |-> TRUE, replies |-> got.replies, log |-> got.log]

Result(out, sub, idx, cnt) ==
  [out |-> out, sub |-> sub, index |-> idx, count |-> cnt]

\* What one iteration of the loop adds to the record of the call: the reply
\* (if any) and the events "ok", "marker", "exc" (how sub_agent.run ended)
\* and "force" (a call of force_rotate).
Logged(got, reply, events) ==
  [replies |-> got.replies \o reply, log |-> got.log \o events]

\* The events of one failed attempt: force_rotate is called (148-149,
\* 155-156) only when a rotator was configured (__init__, 24-29).
FailedEvents(how) == IF has_rotator THEN <<how, "force">> ELSE <<how>>

\* 143-152: the reply is returned when it has none of the failure markers.
SubAgentAccepts_AnyText(o) == o.kind = "text"
SubAgentAccepts(o) == o.kind = "text" /\ ~HasFailureMarker(o.text)

\* The loop of _spawn_sub_agent (136-160) from `attempt` on.  outcomes[k]
\* is what the k-th sub_agent.run gives: a reply, or an exception (a reply
\* without content raises in the test of line 147).
RECURSIVE sub_agent_loop(_, _, _, _, _)
sub_agent_loop(attempt_no, outcomes, got, idx, cnt) ==
  IF attempt_no >= SubAgentRetries
    THEN Result(Out("all_failed", None, None, <<>>, <<>>, <<>>),
                SubAgent(got), idx, cnt)
    ELSE LET o == outcomes[attempt_no + 1]
             \* 139-141: get_next_config
             i1 == IF has_rotator THEN GetNextIndex(idx, cnt, rot_n, rot_c)
                   ELSE idx
             c1 == IF has_rotator THEN GetNextCount(cnt, rot_c) ELSE cnt
             \* 148-149, 155-156: force_rotate
             i2 == IF has_rotator THEN NextIndex(i1, rot_n) ELSE i1
             c2 == IF has_rotator THEN 0 ELSE c1
         IN IF SubAgentAccepts(o)
              THEN Result(Out("subagent", None, None, <<>>, o.text, <<>>),
                          SubAgent(Logged(got, <<o.text>>, <<"ok">>)), i1, c1)
            ELSE IF o.kind = "text"
              THEN sub_agent_loop(attempt_no + 1, outcomes,
                                  Logged(got, <<o.text>>, FailedEvents("marker")),
                                  i2, c2)
            ELSE IF attempt_no = SubAgentRetries - 1
              THEN Result(Out("sub_error", None, None, <<>>, <<>>, <<>>),
                          SubAgent(Logged(got, <<>>, FailedEvents("exc"))),
                          i2, c2)
              ELSE sub_agent_loop(attempt_no + 1, outcomes,
                                  Logged(got, <<>>, FailedEvents("exc")), i2, c2)

\* RLMTools._spawn_sub_agent (127-160).  AgentFactory.create_agent (133)
\* is called outside the `try`: when it raises (no configuration for
\* "chunk-analyzer-agent", factory.py 127-129, 146), the tool raises.
\* context_text and user_query go into the prompt only.
spawn_sub_agent(context_text, user_query, created, outcomes, idx, cnt) ==
  IF ~created THEN Result(ToolRaised, SubAgent(Logged(NoSubAgent, <<>>, <<>>)), idx, cnt)
  ELSE sub_agent_loop(0, outcomes, Logged(NoSubAgent, <<>>, <<>>), idx, cnt)

\* examine_summary_node, branch B (79-95): the node is a leaf.
examine_leaf_ShowsText(chs, tbl, summary_id, query, created, outcomes, idx, cnt) ==
  LET chunk_id == get_linked_chunk_id(tbl, summary_id)
      raw_text == get_chunk_text(chs, chunk_id)
  IN IF query = <<>>
       THEN Result(Out("need_query", summary_id, None, <<>>, raw_text, <<>>),
                   NoSubAgent, idx, cnt)
     ELSE IF chunk_id = None
       THEN Result(Out("no_chunk", summary_id, None, <<>>, <<>>, <<>>),
                   NoSubAgent, idx, cnt)
     ELSE IF raw_text = <<>>
       THEN Result(Out("no_text", chunk_id, None, <<>>, <<>>, <<>>),
                   NoSubAgent, idx, cnt)
       ELSE spawn_sub_agent(raw_text, query, created, outcomes, idx, cnt)
examine_leaf(chs, tbl, summary_id, query, created, outcomes, idx, cnt) ==
  IF query = <<>>
    THEN Result(Out("need_query", summary_id, None, <<>>, <<>>, <<>>),
                NoSubAgent, idx, cnt)
    ELSE LET chunk_id == get_linked_chunk_id(tbl, summary_id)
         IN IF chunk_id = None
              THEN Result(Out("no_chunk", summary_id, None, <<>>, <<>>, <<>>),
                          NoSubAgent, idx, cnt)
              ELSE LET raw_text == get_chunk_text(chs, chunk_id)
                   IN IF raw_text = <<>>
                        THEN Result(Out("no_text", chunk_id, None, <<>>,
                                        <<>>, <<>>), NoSubAgent, idx, cnt)
                        ELSE spawn_sub_agent(raw_text, query, created,
                                             outcomes, idx, cnt)

\* RLMTools.examine_summary_node (46-95); the texts of the model are
\* shorter than the 75 characters of summary_text[:75].
examine_summary_node(chs, tbl, summary_id, query, created, outcomes, idx, cnt) ==
  LET node == get_node_metadata(tbl, summary_id)
  IN IF ~node.found
       THEN Result(Out("not_found", summary_id, None, <<>>, <<>>, <<>>),
                   NoSubAgent, idx, cnt)
     ELSE IF node.level > 0
       THEN LET children == get_child_summaries(tbl, summary_id)
            IN IF children = <<>>
                 THEN Result(Out("no_children", summary_id, node.level,
                                 <<>>, <<>>, <<>>), NoSubAgent, idx, cnt)
                 ELSE Result(Out("folder", summary_id, node.level, <<>>,
                                 node.text, children), NoSubAgent, idx, cnt)
       ELSE examine_leaf(chs, tbl, summary_id, query, created, outcomes,
                         idx, cnt)

Directions == {"next", "prev", "parent"}

\* RLMTools.read_neighbor_node (97-125)
read_neighbor_node(tbl, current_node_id, direction) ==
  IF direction \notin Directions
    THEN Out("bad_direction", None, None, <<>>, <<>>, <<>>)
    ELSE LET target_id == get_adjacent_nodes(tbl, current_node_id)[direction]
         IN IF target_id = None
              THEN Out("no_neighbor", current_node_id, None, <<direction>>,
                       <<>>, <<>>)
              ELSE LET text == get_summary(tbl, target_id)
                       node_meta == get_node_metadata(tbl, target_id)
                   IN IF ~node_meta.found
                        THEN Out("no_meta", target_id, None, <<>>, <<>>, <<>>)
                        ELSE Out("navigated", target_id, node_meta.level,
                                 <<direction>>, text, <<>>)

\* RLMTools.search_summaries (162-175); the texts of the model are shorter
\* than the 150 characters of text[:150].
search_summaries(tbl, query) ==
  IF query = <<>> \/ Strip(query) = <<>>
    THEN Out("empty_query", None, None, <<>>, <<>>, <<>>)
    ELSE LET matches == storage_search_summaries(tbl, Strip(query))
         IN IF matches = <<>>
              THEN Out("no_matches", None, None, query, <<>>, <<>>)
              ELSE Out("results", None, None, query, <<>>, matches)

NavigatorIdle ==
  /\ nav_call = NoCall
  /\ nav_out = NoOut
  /\ nav_sub = NoSubAgent
  /\ alt_chunks = <<>>
  /\ alt_out = NoOut
  /\ alt_sub = NoSubAgent

\* The agent calls one tool on the store.  The same call is made on the
\* second store, where the creation of the sub-agent and its calls have the
\* same outcomes.
NavFrame ==
  UNCHANGED <<rot_n, rot_c, thrVars, wrkVars, storeVars, ingVars, repVars,
              chkVars, alt_chunks, fileVars, poolVars>>

CallInspect ==
  /\ nav_call = NoCall
  /\ nav_call' = [NoCall EXCEPT !.op = "inspect_document_hierarchy"]
  /\ nav_out' = inspect_document_hierarchy(nodes)
  /\ alt_out' = inspect_document_hierarchy(nodes)
  /\ UNCHANGED <<nav_sub, alt_sub, rot_index, rot_count>>
  /\ NavFrame

CallExamine(summary_id, query, created, outcomes) ==
  /\ nav_call = NoCall
  /\ nav_call' = [NoCall EXCEPT !.op = "examine_summary_node",
                                !.id = summary_id, !.query = query]
  /\ LET r == examine_summary_node(chunks, nodes, summary_id, query, created,
                                   outcomes, rot_index, rot_count)
         a == examine_summary_node(alt_chunks, nodes, summary_id, query,
                                   created, outcomes, rot_index, rot_count)
     IN /\ nav_out' = r.out
        /\ nav_sub' = r.sub
        /\ rot_index' = r.index
        /\ rot_count' = r.count
        /\ alt_out' = a.out
        /\ alt_sub' = a.sub
  /\ NavFrame

CallNeighbor(current_node_id, direction) ==
  /\ nav_call = NoCall
  /\ nav_call' = [NoCall EXCEPT !.op = "read_neighbor_node",
                                !.id = current_node_id,
                                !.direction = direction]
  /\ nav_out' = read_neighbor_node(nodes, current_node_id, direction)
  /\ alt_out' = read_neighbor_node(nodes, current_node_id, direction)
  /\ UNCHANGED <<nav_sub, alt_sub, rot_index, rot_count>>
  /\ NavFrame

CallSearch(query) ==
  /\ nav_call = NoCall
  /\ nav_call' = [NoCall EXCEPT !.op = "search_summaries", !.query = query]
  /\ nav_out' = search_summaries(nodes, query)
  /\ alt_out' = search_summaries(nodes, query)
  /\ UNCHANGED <<nav_sub, alt_sub, rot_index, rot_count>>
  /\ NavFrame

(***************************************************************************)
(* The database file: StorageEngine.__init__, _init_tables and             *)
(* _migrate_schema_if_needed (storage.py 26-118).                          *)
(***************************************************************************)
\* What is kept of the layout the file had before its first open.
NoFirst == [chunk_id |-> TRUE, summary_chunks |-> FALSE, join |-> <<>>]

\* The layout _init_tables creates in a new file (43-77): table summaries
\* with column chunk_id, no table summary_chunks.  join[id] is the chunk_id
\* of the row of summary_chunks for summary id, or None.
Layout(column, table, join, status) ==
  [chunk_id |-> column, summary_chunks |-> table, join |-> join,
   status |-> status, opens |-> 0,
   first |-> [chunk_id |-> column, summary_chunks |-> table, join |-> join]]

CurrentLayout == [Layout(TRUE, FALSE, <<>>, "open") EXCEPT !.first = NoFirst]

\* _init_tables (42-78).  CREATE TABLE IF NOT EXISTS leaves an existing
\* table as it is; CREATE INDEX ... ON summaries(chunk_id) (76) is refused
\* by SQLite when table summaries has no such column
\* (sqlite3.OperationalError: no such column), and
\* _migrate_schema_if_needed is called after it (78).
init_tables_raises(sch) == ~sch.chunk_id

\* 98-106: UPDATE summaries SET chunk_id = (SELECT chunk_id FROM
\* summary_chunks WHERE summary_id = summaries.id) WHERE level = 0.
CopyLinks(tbl, join) ==
  [id \in 1..Len(tbl) |->
     IF tbl[id].level = 0
       THEN [tbl[id] EXCEPT !.chunks = IF join[id] = None THEN {}
                                       ELSE {join[id]}]
       ELSE tbl[id]]

\* _migrate_schema_if_needed (80-118): the column is added and filled from
\* summary_chunks when it is missing (89-110); summary_chunks is dropped
\* when it exists (113-118).
migrate_schema_if_needed(sch, tbl) ==
  [nodes |-> IF ~sch.chunk_id /\ sch.summary_chunks
               THEN CopyLinks(tbl, sch.join) ELSE tbl,
   schema |-> [sch EXCEPT !.chunk_id = TRUE, !.summary_chunks = FALSE,
                          !.join = <<>>]]

DatabaseFrame ==
  UNCHANGED <<rotVars, thrVars, wrkVars, chkVars, navVars, chunks, ingVars,
              repVars, clock, config_file, loader, cfg_call, poolVars>>

\* StorageEngine(db_path) (27-40): _init_tables, which ends with the
\* migration.
OpenStore ==
  /\ schema.status = "closed"
  /\ schema.opens < MaxOpens
  /\ IF init_tables_raises(schema)
       THEN /\ schema' = [schema EXCEPT !.status = "raised", !.opens = @ + 1]
            /\ UNCHANGED nodes
       ELSE LET m == migrate_schema_if_needed(schema, nodes)
            IN /\ schema' = [m.schema EXCEPT !.status = "open",
                                             !.opens = @ + 1]
               /\ nodes' = m.nodes
  /\ DatabaseFrame

\* The process that opened the file ends.
CloseStore ==
  /\ schema.status # "closed"
  /\ schema' = [schema EXCEPT !.status = "closed"]
  /\ UNCHANGED nodes
  /\ DatabaseFrame

(***************************************************************************)
(* AgentConfigLoader (config.py 45-118) and the catalog file.              *)
(***************************************************************************)
AgentIds == {"agent"}
NoEntry == "none"
Entries == {"v1", "v2"}
Catalogs == [AgentIds -> Entries \cup {NoEntry}]
EmptyCatalog == [a \in AgentIds |-> NoEntry]

\* `if self._config_cache` (65): a dict is true when it has an entry.
Truthy(cache) == cache # EmptyCatalog

\* __init__ (46-53).
NewLoader == [config_cache |-> EmptyCatalog, last_mtime |-> 0]

NoConfigCall ==
  [op |-> "none", agent_id |-> "none", out |-> NoEntry, raised |-> FALSE,
   reread |-> FALSE, differed |-> FALSE, cached |-> FALSE,
   on_file |-> NoEntry, masked |-> FALSE, own_write |-> FALSE]

\* The file as a writer leaves it.  masked: the content was written by
\* another writer and differs from what the loader holds, under the mtime
\* the loader recorded.
File(data, mtime, writer, masked) ==
  [exists |-> TRUE, data |-> data, mtime |-> mtime, writer |-> writer,
   masked |-> masked]

ConfigIdle ==
  /\ clock = 1
  /\ config_file = File(EmptyCatalog, 1, "editor", FALSE)
  /\ loader = NewLoader
  /\ cfg_call = NoConfigCall

FilesIdle == schema = CurrentLayout /\ ConfigIdle

ConfigFrame ==
  UNCHANGED <<rotVars, thrVars, wrkVars, storeVars, ingVars, repVars, chkVars,
              navVars, schema, poolVars>>

\* 65: the cache is kept when it is non-empty and the file's mtime is the
\* recorded one.
KeepsCache(ldr, file) ==
  Truthy(ldr.config_cache) /\ file.mtime = ldr.last_mtime

\* _load_if_needed (56-86) on an existing file.
load_if_needed(ldr, file) ==
  IF KeepsCache(ldr, file) THEN ldr
  ELSE [config_cache |-> file.data, last_mtime |-> file.mtime]

\* get_agent (88-91).  When the file is missing the cache is reset and
\* FileNotFoundError is raised (57-61).
GetAgent(agent_id) ==
  /\ IF ~config_file.exists
       THEN /\ loader' = NewLoader
            /\ cfg_call' = [NoConfigCall EXCEPT !.op = "get_agent",
                              !.agent_id = agent_id, !.raised = TRUE]
            /\ UNCHANGED config_file
       ELSE /\ loader' = load_if_needed(loader, config_file)
            /\ cfg_call' =
                 [op |-> "get_agent", agent_id |-> agent_id,
                  out |-> loader'.config_cache[agent_id], raised |-> FALSE,
                  reread |-> ~KeepsCache(loader, config_file),
                  differed |-> config_file.mtime # loader.last_mtime,
                  cached |-> Truthy(loader.config_cache),
                  on_file |-> config_file.data[agent_id],
                  masked |-> config_file.masked,
                  own_write |-> config_file.writer = "save"]
            /\ config_file' =
                 [config_file EXCEPT !.masked = @ /\ KeepsCache(loader, config_file)]
  /\ UNCHANGED clock
  /\ ConfigFrame

\* 117-118: the mtime save records.
SavedMtime_Keeps(ldr, mtime) == ldr.last_mtime
SavedMtime(ldr, mtime) == mtime

\* save (98-118): the cache is written to the file, and the file's mtime is
\* recorded.
Save ==
  /\ config_file' = File(loader.config_cache, clock, "save", FALSE)
  /\ loader' = [loader EXCEPT !.last_mtime = SavedMtime(loader, clock)]
  /\ cfg_call' = [NoConfigCall EXCEPT !.op = "save"]
  /\ UNCHANGED clock
  /\ ConfigFrame

\* Another writer (an editor, a deployment) replaces the file.
EditFile(data) ==
  /\ config_file' =
       File(data, clock, "editor",
            /\ clock = loader.last_mtime
            /\ Truthy(loader.config_cache)
            /\ data # loader.config_cache)
  /\ UNCHANGED <<clock, loader, cfg_call>>
  /\ ConfigFrame

RemoveFile ==
  /\ config_file.exists
  /\ config_file' = [config_file EXCEPT !.exists = FALSE, !.masked = FALSE]
  /\ UNCHANGED <<clock, loader, cfg_call>>
  /\ ConfigFrame

\* The file system's time advances by one unit of its timestamps.
Tick ==
  /\ clock < MaxClock
  /\ clock' = clock + 1
  /\ UNCHANGED <<config_file, loader, cfg_call>>
  /\ ConfigFrame

(***************************************************************************)
(* A parallel phase of repair, thread by thread: the calls of              *)
(* _generate_missing_level_0 (validator.py 338-372) in the executor, and   *)
(* the main thread that takes their results.                               *)
(***************************************************************************)
\* How a call of the phase may end (a reply that is accepted, the error
\* sentinel, an exception).
PoolOutcomes == {Returned(<<"w">>), Returned(ErrorSentinel), Raised}

Future(chunk_id) == [chunk_id |-> chunk_id, state |-> "queued", result |-> NoOutcome]

\* 340-346: one future per missing chunk, in the order of the list.
Submitted(ids) ==
  [futures |-> [k \in 1..Len(ids) |-> Future(ids[k])], taken |-> {},
   pc |-> "wait", writing |-> {}, completed |-> <<>>]

PoolIdle == pool = Submitted(<<>>)

PoolFrame ==
  UNCHANGED <<rotVars, thrVars, wrkVars, chkVars, navVars, fileVars, chunks,
              ingVars, repVars>>

InState(state) == {k \in 1..Len(pool.futures) : pool.futures[k].state = state}

\* ThreadPoolExecutor(max_workers): a free thread takes the oldest queued
\* call.
PoolStart ==
  /\ InState("queued") # {}
  /\ Cardinality(InState("running")) < NumKeys
  /\ LET k == CHOOSE x \in InState("queued") : \A y \in InState("queued") : x <= y
     IN pool' = [pool EXCEPT !.futures[k].state = "running"]
  /\ UNCHANGED nodes
  /\ PoolFrame

\* A running call of _get_summary_from_llm ends.
PoolComplete(k, outcome) ==
  /\ k \in InState("running")
  /\ pool' = [pool EXCEPT !.futures[k].state = "done",
                          !.futures[k].result = outcome,
                          !.completed = Append(@, k)]
  /\ UNCHANGED nodes
  /\ PoolFrame

\* 348: `for chunk_id, future in futures`: the future the main thread
\* takes next is the oldest one it has not taken.
NextToTake_Completed(futures, taken) ==
  LET left == (1..Len(futures)) \ taken
      done == {k \in left : futures[k].state = "done"}
      from == IF done = {} THEN left ELSE done
  IN CHOOSE k \in from : \A j \in from : j >= k
NextToTake(futures, taken) ==
  LET left == (1..Len(futures)) \ taken
  IN CHOOSE k \in left : \A j \in left : k <= j

\* 349-351: future.result() returns when the call is done; an accepted
\* summary is written under db_lock.
MainTakes ==
  /\ pool.pc = "wait"
  /\ pool.taken # 1..Len(pool.futures)
  /\ LET k == NextToTake(pool.futures, pool.taken)
     IN /\ pool.futures[k].state = "done"
        /\ IF Accepted(pool.futures[k].result)
             THEN pool' = [pool EXCEPT !.pc = "write",
                                       !.writing = @ \cup {"main"}]
             ELSE pool' = [pool EXCEPT !.taken = @ \cup {k}]
  /\ UNCHANGED nodes
  /\ PoolFrame

\* 352-361: the row is added and linked, and db_lock is released.
MainWrites ==
  /\ pool.pc = "write"
  /\ LET k == NextToTake(pool.futures, pool.taken)
     IN /\ nodes' = link_summary_to_chunk(
                      add_summary(nodes, pool.futures[k].result.text, 0,
                                  NoParent, get_next_sequence_index(nodes, 0)),
                      Len(nodes) + 1, pool.futures[k].chunk_id)
        /\ pool' = [pool EXCEPT !.pc = "wait", !.taken = @ \cup {k},
                                !.writing = @ \ {"main"}]
  /\ PoolFrame

InitRotator ==
  /\ \E n \in 1..MaxConfigs, c \in 1..MaxCallsPerModel : RotatorInit(n, c)
  /\ ThreadsInit
  /\ WorkersInit(FALSE, 0)
  /\ StoreInit
  /\ IngestIdle
  /\ RepairIdle
  /\ ChunkerIdle
  /\ NavigatorIdle
  /\ FilesIdle
  /\ PoolIdle

NextRotator ==
  \E t \in Threads :
    \/ GetAcquire(t)
    \/ GetRead(t)
    \/ GetCheck(t)
    \/ ForceAcquire(t)
    \/ ForceReset(t)
    \/ ForceAdvance(t)

SpecRotator == InitRotator /\ [][NextRotator]_vars

\* The executor's threads, with or without a rotator; the rotator has one
\* model, or the largest pool with the highest calls_per_model.
InitWorkers ==
  /\ ThreadsInit
  /\ \E rotator \in BOOLEAN, tasks \in 1..MaxTasks :
       /\ WorkersInit(rotator, tasks)
       /\ IF rotator
            THEN \/ RotatorInit(1, 1)
                 \/ RotatorInit(MaxConfigs, MaxCallsPerModel)
            ELSE RotatorInit(1, 1)
  /\ StoreInit
  /\ IngestIdle
  /\ RepairIdle
  /\ ChunkerIdle
  /\ NavigatorIdle
  /\ FilesIdle
  /\ PoolIdle

NextWorkers ==
  \E w \in Workers :
    \/ WStart(w)
    \/ WCreate(w)
    \/ WSelect(w)
    \/ WRun(w)

SpecWorkers == InitWorkers /\ [][NextWorkers]_vars

\* One store: a file is ingested, then validate/repair cycles run on it.
Init ==
  /\ RotatorInit(1, 1)
  /\ ThreadsInit
  /\ WorkersInit(FALSE, 0)
  /\ StoreInit
  /\ \E n \in 1..MaxFileLen, target \in 1..MaxTargetTokens, g \in 1..MaxGroup :
       IngestInit(n, target, g)
  /\ RepairIdle
  /\ ChunkerIdle
  /\ NavigatorIdle
  /\ FilesIdle
  /\ PoolIdle

Next == NextIngest \/ NextRepair

Spec == Init /\ [][Next]_vars

\* A store that an interrupted ingestion left: ingest_file stored the chunks
\* (indexer.py 111-136) and raised in the first summarize_text call of the
\* level-0 phase (line 147), before any summary row was written.
InterruptedWith(most) ==
  /\ RotatorInit(1, 1)
  /\ ThreadsInit
  /\ WorkersInit(FALSE, 0)
  /\ \E n \in 1..most : chunks = [c \in 1..n |-> TRUE]
  /\ nodes = <<>>
  /\ ipc = "aborted"
  /\ full_len = 0
  /\ target_chunk_tokens = 1
  /\ group_size = 1
  /\ current_idx = 0
  /\ seg_len = 0
  /\ chunks_data = <<>>
  /\ current_level_summaries = <<>>
  /\ level = 0
  /\ RepairIdle
  /\ ChunkerIdle
  /\ NavigatorIdle
  /\ FilesIdle
  /\ PoolIdle

InitInterrupted == InterruptedWith(MaxStoredChunks)

\* validate/repair cycles on such a store, with any arguments
SpecRepair == InitInterrupted /\ [][NextRepair]_vars

\* the call repeats the arguments of the call before it
SameArguments(g, d) ==
  repairs = 0 \/ (g = last_repair.group_size /\ d = last_repair.max_depth)

\* repair is run again and again with the same arguments
NextRepairRuns ==
  \/ \E g \in 1..MaxGroup, d \in 0..MaxDepth :
       SameArguments(g, d) /\ StartRepair(g, d)
  \/ \E g \in 1..MaxGroup, d \in 0..MaxDepth :
       SameArguments(g, d) /\ RepairAgain(g, d)
  \/ Regenerate
  \/ Fill
  \/ ExtendRound

\* ... and a call that can take a step takes one
SpecRepairFair ==
  InitInterrupted /\ [][NextRepairRuns]_vars /\ WF_vars(NextRepairRuns)

\* indexer.py 139-234 stopped by an exception of summarize_text in the
\* hierarchy loop: the level-0 rows, each with the text `leaf`, and the
\* levels 1..top above them are written, the next level is not.
RECURSIVE ingest_levels_upto(_, _, _, _, _, _)
ingest_levels_upto(tbl, ids, g, lvl, text, top) ==
  IF Len(ids) <= 1 \/ lvl > top THEN tbl
  ELSE LET groups == Groups(ids, g)
           parent_ids == NewIds(tbl, Len(groups))
       IN ingest_levels_upto(
            SetParents(
              add_summaries(tbl, [j \in 1..Len(groups) |-> text], lvl,
                            [j \in 1..Len(groups) |-> {}], 1),
              groups, parent_ids),
            parent_ids, g, lvl + 1, text, top)

interrupted_summaries(n, g, leaf, top) ==
  LET groups == Groups([c \in 1..n |-> c], g)
  IN ingest_levels_upto(
       add_summaries(<<>>, [j \in 1..Len(groups) |-> leaf], 0,
                     [j \in 1..Len(groups) |-> SeqToSet(groups[j])], 1),
       NewIds(<<>>, Len(groups)), g, 1, <<"w">>, top)

\* The stores an interrupted ingestion left: up to MaxRunChunks chunks
\* without rows, or two chunks ingested one per group with the levels
\* 0..top written, the level-0 rows holding a summary or the text of a
\* provider error.
InitRuns ==
  /\ RotatorInit(1, 1)
  /\ ThreadsInit
  /\ WorkersInit(FALSE, 0)
  /\ \/ /\ \E n \in 1..MaxRunChunks : chunks = [c \in 1..n |-> TRUE]
        /\ nodes = <<>>
     \/ /\ chunks = [c \in 1..2 |-> TRUE]
        /\ \E top \in {0, 1}, leaf \in {<<"w">>, <<"PE">>} :
             nodes = interrupted_summaries(2, 1, leaf, top)
  /\ ipc = "aborted"
  /\ full_len = 0
  /\ target_chunk_tokens = 1
  /\ group_size = 1
  /\ current_idx = 0
  /\ seg_len = 0
  /\ chunks_data = <<>>
  /\ current_level_summaries = <<>>
  /\ level = 0
  /\ RepairIdle
  /\ ChunkerIdle
  /\ NavigatorIdle
  /\ FilesIdle
  /\ PoolIdle

\* One repair call, with any arguments, on such a store; a call that can
\* take a step takes one.
StartRun(g, d) ==
  /\ repairs = 0
  /\ BeginRepair(g, d)
  /\ repairs' = repairs + 1

NextRuns ==
  \/ \E g \in 1..MaxGroup, d \in 0..MaxDepth : StartRun(g, d)
  \/ Regenerate
  \/ Fill
  \/ ExtendRound

SpecRunsFair ==
  InitRuns /\ [][NextRuns]_vars /\ WF_vars(NextRuns)

\* A store whose file was cut into one chunk, with or without text in it:
\* ingest_file has stored the chunk (indexer.py 111-136) and is about to
\* summarize it.
InitChunked ==
  /\ RotatorInit(1, 1)
  /\ ThreadsInit
  /\ WorkersInit(FALSE, 0)
  /\ \E data \in {<<TRUE>>, <<FALSE>>}, g \in 1..MaxGroup :
       /\ chunks = data
       /\ chunks_data = data
       /\ group_size = g
  /\ nodes = <<>>
  /\ ipc = "level0"
  /\ full_len = 0
  /\ target_chunk_tokens = 1
  /\ current_idx = 0
  /\ seg_len = 0
  /\ current_level_summaries = <<>>
  /\ level = 0
  /\ RepairIdle
  /\ ChunkerIdle
  /\ NavigatorIdle
  /\ FilesIdle
  /\ PoolIdle

\* The summary of the chunk is any text; repair then runs on the store.
NextTexts ==
  \/ IngestLevel0From(AnyReplies)
  \/ \E g \in 1..MaxGroup, d \in 0..MaxDepth : StartRepair(g, d)
  \/ \E g \in 1..MaxGroup, d \in 0..MaxDepth : RepairAgain(g, d)
  \/ Regenerate
  \/ Fill

SpecTexts == InitChunked /\ [][NextTexts]_vars

\* Either store; repair is called with some arguments, dry or not, in any
\* order.
InitStores == InterruptedWith(MaxDryChunks) \/ InitChunked

NextDry ==
  \/ IngestLevel0From(AnyReplies)
  \/ \E g \in 1..MaxGroup, d \in 0..MaxDepth :
       SameArguments(g, d) /\ DryRepair(g, d)
  \/ \E g \in 1..MaxGroup, d \in 0..MaxDepth :
       SameArguments(g, d) /\ StartRepair(g, d)
  \/ Regenerate
  \/ Fill
  \/ ExtendRound

SpecDry == InitStores /\ [][NextDry]_vars

\* The writers of StorageEngine called one by one with any arguments, as
\* any client of the store may call them (storage.py 129-157, 410-416).
InitStorage ==
  /\ RotatorInit(1, 1)
  /\ ThreadsInit
  /\ WorkersInit(FALSE, 0)
  /\ chunks = <<TRUE>>
  /\ nodes = <<>>
  /\ IngestIdle
  /\ RepairIdle
  /\ ChunkerIdle
  /\ NavigatorIdle
  /\ FilesIdle
  /\ PoolIdle

StorageFrame == UNCHANGED <<rotVars, thrVars, wrkVars, chkVars, navVars, fileVars, poolVars, chunks, ingVars, repVars>>

CallAddSummary(lvl, seq) ==
  /\ Len(nodes) < MaxRows
  /\ nodes' = add_summary(nodes, <<"w">>, lvl, NoParent, seq)
  /\ StorageFrame

CallLink(id, chunk_id) ==
  /\ nodes' = link_summary_to_chunk(nodes, id, chunk_id)
  /\ StorageFrame

CallUpdateParent(id, parent) ==
  /\ nodes' = update_summary_parent(nodes, id, parent)
  /\ StorageFrame

CallUpdateText(id, text) ==
  /\ nodes' = update_summary_text(nodes, id, text)
  /\ StorageFrame

NextStorage ==
  \/ \E lvl \in 0..1, seq \in 0..1 : CallAddSummary(lvl, seq)
  \/ \E id \in NodeIds(nodes) : CallLink(id, 1)
  \/ \E id, parent \in NodeIds(nodes) : CallUpdateParent(id, parent)
  \/ \E id \in NodeIds(nodes), text \in {<<"w">>, <<"PE">>} :
       CallUpdateText(id, text)

SpecStorage == InitStorage /\ [][NextStorage]_vars

\* TokenBuffer.get_chunk_at called once, on any text.
CallGetChunkAt ==
  /\ cpc = "call"
  /\ strategy = "buffer"
  /\ Yield(get_chunk_at(max_tokens, doc), 0, Len(doc))
  /\ cpc' = "done"
  /\ UNCHANGED <<strategy, doc, max_tokens, overlap_pct, chk_idx, last_cut>>
  /\ UNCHANGED <<rotVars, thrVars, wrkVars, storeVars, ingVars, repVars,
                 navVars, fileVars, poolVars>>

\* The phase on a store of 1..MaxPoolCalls chunks without summaries.
InitPool ==
  /\ RotatorInit(1, 1)
  /\ ThreadsInit
  /\ WorkersInit(FALSE, 0)
  /\ IngestIdle
  /\ RepairIdle
  /\ ChunkerIdle
  /\ NavigatorIdle
  /\ FilesIdle
  /\ nodes = <<>>
  /\ \E n \in 1..MaxPoolCalls :
       /\ chunks = [c \in 1..n |-> TRUE]
       /\ pool = Submitted([c \in 1..n |-> c])

NextPool ==
  \/ PoolStart
  \/ \E k \in 1..MaxPoolCalls, outcome \in PoolOutcomes : PoolComplete(k, outcome)
  \/ MainTakes
  \/ MainWrites

SpecPool == InitPool /\ [][NextPool]_vars

\* A database file of the older layout (table summaries without chunk_id,
\* with or without table summary_chunks) or of the current one, opened,
\* closed and opened again.
OldTables(n) ==
  {[id \in 1..n |-> Node(<<"w">>, lv[id], NoParent, id - 1, {})] :
     lv \in [1..n -> 0..1]}

InitDatabase ==
  /\ RotatorInit(1, 1)
  /\ ThreadsInit
  /\ WorkersInit(FALSE, 0)
  /\ IngestIdle
  /\ RepairIdle
  /\ ChunkerIdle
  /\ NavigatorIdle
  /\ ConfigIdle
  /\ PoolIdle
  /\ chunks = <<TRUE, TRUE>>
  /\ \E n \in 0..MaxOldRows :
       \E tbl \in OldTables(n), join \in [1..n -> {None} \cup 1..Len(chunks)] :
         \/ nodes = tbl /\ schema = Layout(FALSE, TRUE, join, "closed")
         \/ nodes = tbl /\ schema = Layout(FALSE, FALSE, <<>>, "closed")
         \/ /\ nodes = CopyLinks(tbl, join)
            /\ schema = Layout(TRUE, FALSE, <<>>, "closed")

NextDatabase == OpenStore \/ CloseStore

SpecDatabase == InitDatabase /\ [][NextDatabase]_vars

\* The loader of one process and the other writers of its file.
InitConfig ==
  /\ RotatorInit(1, 1)
  /\ ThreadsInit
  /\ WorkersInit(FALSE, 0)
  /\ StoreInit
  /\ IngestIdle
  /\ RepairIdle
  /\ ChunkerIdle
  /\ NavigatorIdle
  /\ schema = CurrentLayout
  /\ clock = 1
  /\ \E data \in Catalogs : config_file = File(data, 1, "editor", FALSE)
  /\ loader = NewLoader
  /\ cfg_call = NoConfigCall
  /\ PoolIdle

NextConfig ==
  \/ \E agent_id \in AgentIds : GetAgent(agent_id)
  \/ Save
  \/ \E data \in Catalogs : EditFile(data)
  \/ RemoveFile
  \/ Tick

SpecConfig == InitConfig /\ [][NextConfig]_vars

\* The chunkers: chunk_text is called on any text.
\* overlap_ratio is 0, 0.25, 0.5 or 0.9 (the constructor refuses a ratio
\* outside [0, 1)).
OverlapRatios == {0, 25, 50, 90}

InitChunker(which, most) ==
  /\ RotatorInit(1, 1)
  /\ ThreadsInit
  /\ WorkersInit(FALSE, 0)
  /\ StoreInit
  /\ IngestIdle
  /\ RepairIdle
  /\ cpc = "call"
  /\ strategy = which
  /\ doc \in Texts(most)
  /\ max_tokens \in 1..MaxTokens
  /\ overlap_pct \in (IF which = "fixed" THEN OverlapRatios ELSE {0})
  /\ chk_idx = 0
  /\ prev_chunk = NoChunk
  /\ last_chunk = NoChunk
  /\ rebuilt = <<>>
  /\ last_cut = NoCut
  /\ NavigatorIdle
  /\ FilesIdle
  /\ PoolIdle

\* (Both loops are left by their `break`: the loop test holds whenever it
\* is evaluated, see LoopTestHolds.)
NextFixed == ChunkCall \/ FixedRound

NextLlm == ChunkCall \/ LlmRound \/ LlmRaises

LoopTestHolds == cpc = "loop" => LoopTest

SpecFixed == InitChunker("fixed", MaxDocLen) /\ [][NextFixed]_vars

SpecLlm == InitChunker("llm", MaxLlmDocLen) /\ [][NextLlm]_vars

SpecTokens == InitChunker("buffer", MaxDocLen) /\ [][CallGetChunkAt]_vars

\* a chunk_text call that can take a step takes one
SpecFixedFair == SpecFixed /\ WF_vars(NextFixed)

SpecLlmFair == SpecLlm /\ WF_vars(NextLlm)

\* The navigator: one call of a tool of RLMTools on a store that the
\* writers of storage.py can leave, and on a second store with other chunk
\* texts.  "x", "y": two words of a chunk text.
NavChunkTexts == {<<>>, <<"x">>, <<"y">>}

NavLinks(k) == {{}} \cup {{c} : c \in 1..k}

\* no row; a level-1 row without children; one leaf; two leaves without a
\* parent; two leaves under a level-1 row
NavTables(k) ==
  {<<>>, <<Node(<<"w">>, 1, NoParent, 0, {})>>}
    \cup {<<Node(<<"w">>, 0, NoParent, 0, l)>> : l \in NavLinks(k)}
    \cup {<<Node(<<"w">>, 0, NoParent, 0, l),
            Node(<<"md", "w">>, 0, NoParent, 1, {})>> : l \in NavLinks(k)}
    \cup {<<Node(<<"w">>, 0, 3, 0, l), Node(<<"md", "w">>, 0, 3, 1, {}),
            Node(<<"md">>, 1, NoParent, 0, {})>> : l \in NavLinks(k)}

Queries == {<<>>, <<"nl">>, <<"w">>}

\* a reply, a reply with a failure marker, an exception
SubAgentOutcomes == {Returned(<<"w">>), Returned(<<"PE">>), Raised}

InitNav ==
  /\ RotatorInit(MaxConfigs, MaxCallsPerModel)
  /\ ThreadsInit
  /\ \E r \in BOOLEAN : WorkersInit(r, 0)
  /\ \E k \in 0..MaxNavChunks :
       /\ chunks \in [1..k -> NavChunkTexts]
       /\ alt_chunks \in [1..k -> NavChunkTexts]
       /\ nodes \in NavTables(k)
  /\ IngestIdle
  /\ RepairIdle
  /\ ChunkerIdle
  /\ nav_call = NoCall
  /\ nav_out = NoOut
  /\ nav_sub = NoSubAgent
  /\ alt_out = NoOut
  /\ alt_sub = NoSubAgent
  /\ FilesIdle
  /\ PoolIdle

\* the call on the store chs gets as far as _spawn_sub_agent
ReachesSubAgent(chs, summary_id, query) ==
  examine_summary_node(chs, nodes, summary_id, query, TRUE,
                       [k \in 1..SubAgentRetries |-> Raised], 0, 0).sub.spawned

\* what the creation of the sub-agent and its calls may give, for a call
\* that gets to them on one of the two stores
AgentOutcomes(summary_id, query) ==
  IF \/ ReachesSubAgent(chunks, summary_id, query)
     \/ ReachesSubAgent(alt_chunks, summary_id, query)
    THEN BOOLEAN \X [1..SubAgentRetries -> SubAgentOutcomes]
    ELSE {<<TRUE, [k \in 1..SubAgentRetries |-> Raised]>>}

NextNav ==
  \/ CallInspect
  \/ \E summary_id \in 0..(Len(nodes) + 1), query \in Queries :
       \E o \in AgentOutcomes(summary_id, query) :
         CallExamine(summary_id, query, o[1], o[2])
  \/ \E current_node_id \in 0..(Len(nodes) + 1),
        direction \in Directions \cup {"up"} :
       CallNeighbor(current_node_id, direction)
  \/ \E query \in Queries : CallSearch(query)

SpecNav == InitNav /\ [][NextNav]_vars

\* ingest_file alone: a call that can take a step takes one.
SpecIngestFair == Init /\ [][NextIngest]_vars /\ WF_vars(NextIngest)

(***************************************************************************)
(* Claims about the summarizer workers (SpecWorkers).                      *)
(***************************************************************************)
KeySlots == 0..(NumKeys - 1)

InFlight == {w \in Workers : key_index[w] # None}

\* C6: under every interleaving of the workers each key slot 0..N-1 is held
\* by at most one call in flight, a held slot is not in the queue as well,
\* and at most N calls are in flight.
C6_SlotHeldByOne ==
  /\ \A w \in InFlight : key_index[w] \in KeySlots
  /\ \A w1, w2 \in InFlight : w1 # w2 => key_index[w1] # key_index[w2]
  /\ \A w \in InFlight : \A i \in 1..Len(key_queue) : key_queue[i] # key_index[w]
  /\ Cardinality(InFlight) <= NumKeys

\* every slot is out at once: N calls in flight and the queue empty
C6_Witness ==
  /\ Cardinality(InFlight) = NumKeys
  /\ key_queue = <<>>
  /\ \E w \in Workers : wpc[w] = "run" /\ attempt[w] = MaxRetries - 1

\* C7: a call that took a key slot has put it back when it ends, however it
\* ends; when every worker has finished the queue holds each of the N slots
\* exactly once.
C7_SlotAlwaysReturned ==
  /\ \A w \in Workers : wpc[w] = "idle" => key_index[w] = None
  /\ \A k \in KeySlots :
       Cardinality({i \in 1..Len(key_queue) : key_queue[i] = k})
         + Cardinality({w \in Workers : key_index[w] = k}) = 1
  /\ (\A w \in Workers : wpc[w] = "idle") =>
       /\ Len(key_queue) = NumKeys
       /\ \A k \in KeySlots : \E i \in 1..NumKeys : key_queue[i] = k

\* all prompts are done; one call ended by raising out of create_agent and
\* one by returning the sentinel, and the queue is whole again
C7_Witness ==
  /\ tasks_left = 0
  /\ \A w \in Workers : wpc[w] = "idle"
  /\ \E w \in Workers : wlast[w] = Raised
  /\ \E w \in Workers : wlast[w] = Returned(ErrorSentinel)
  /\ Len(key_queue) = NumKeys

\* C8: a summarizer call never raises: it makes at most max_retries
\* attempts and ends by returning a text (a summary or the sentinel).
C8_NeverRaises ==
  \A w \in Workers :
    /\ attempt[w] < MaxRetries
    /\ wlast[w] # NoOutcome => wlast[w].kind = "text"

(***************************************************************************)
(* Claims about ingestion (SpecIngestFair).                                *)
(***************************************************************************)
LeafNodes == {i \in NodeIds(nodes) : nodes[i].level = 0}

WellFormedTree ==
  \A i \in NodeIds(nodes) :
    nodes[i].parent # NoParent =>
      /\ nodes[i].parent \in NodeIds(nodes)
      /\ nodes[nodes[i].parent].level = nodes[i].level + 1

\* ingest_file has returned, or has raised
IngestHalted == ipc \in {"done", "aborted"}

\* C4: for any non-empty file and any replies of the LLM, ingest_file halts,
\* and when it returns it leaves at least one level-0 node and a well-formed
\* tree.  A call that raises counts as halted.  With group_size = 1 the
\* hierarchy loop is followed only up to MaxNodes rows, so a run that is in
\* that loop is not counted against the claim here.
C4_IngestHalts ==
  /\ <>(IngestHalted \/ (ipc = "hier" /\ group_size = 1))
  /\ [](ipc = "done" => (LeafNodes # {} /\ WellFormedTree))

(***************************************************************************)
(* Claims about the store after ingestion and repair (Spec).               *)
(***************************************************************************)

\* no ingestion and no repair is under way
AtRest == ipc \in {"done", "aborted"} /\ rpc \in {"idle", "done", "aborted"}

\* C2: after any sequence of ingestion and repair runs, whatever the LLM
\* calls returned, every node with a parent is one level below its parent.
C2_ParentOneLevelUp ==
  AtRest =>
    \A i \in NodeIds(nodes) :
      nodes[i].parent # NoParent =>
        nodes[nodes[i].parent].level = nodes[i].level + 1

Children(p) == {i \in NodeIds(nodes) : nodes[i].parent = p}

\* the chunks summarized below a node, as chunk ids (= source-text order)
RECURSIVE Span(_)
Span(i) ==
  IF Children(i) = {} THEN nodes[i].chunks
  ELSE UNION {Span(c) : c \in Children(i)}

\* C3: after any sequence of ingestion and repair runs, the children of
\* every internal node, sorted by sequence_index, cover a contiguous block of
\* the node's descendants in source-text order: sibling indexes are
\* distinct, a sibling with a lower index covers earlier chunks, and no leaf
\* outside the node lies between two of the chunks below it.
C3_ChildrenInSourceOrder ==
  AtRest =>
    \A p \in NodeIds(nodes) :
      /\ \A c1, c2 \in Children(p) :
           /\ c1 # c2 => nodes[c1].seq # nodes[c2].seq
           /\ nodes[c1].seq < nodes[c2].seq =>
                \A x \in Span(c1), y \in Span(c2) : x < y
      /\ Children(p) # {} =>
           \A l \in LeafNodes \ {p} :
             Span(l) \subseteq Span(p)
               \/ ~\E x, y \in Span(p), z \in Span(l) : x < z /\ z < y

\* the level-0 nodes linked to chunk c
LeavesOf(c) == {i \in LeafNodes : c \in nodes[i].chunks}

ChunkIds == 1..Len(chunks)

\* ingest_file has returned and no repair has run since, or a repair has
\* returned
CycleCompleted == (ipc = "done" /\ rpc = "idle") \/ rpc = "done"

HasThinkBlock(text) ==
  \E i, j \in 1..Len(text) : i < j /\ text[i] = "TO" /\ text[j] = "TC"

\* the text begins with a code fence
HasLeadingFence(text) == text # <<>> /\ Head(text) = "F"

\* C5: after any repair cycle (here: one in which no call failed) no
\* persisted summary text contains a <think> block, begins with a code
\* fence, or contains the provider-error sentinel.
C5_NoPollution ==
  (rpc = "done" /\ stats.failed = 0) =>
    \A i \in NodeIds(nodes) :
      /\ ~HasThinkBlock(nodes[i].text)
      /\ ~HasLeadingFence(nodes[i].text)
      /\ ~Contains(nodes[i].text, "PE")

\* the level-0 nodes are the ones ingest_file(group_size = g) writes for the
\* stored chunks: one per group of g consecutive chunks
IngestedWith(g) ==
  LET groups == Groups([c \in ChunkIds |-> c], g)
  IN {nodes[i].chunks : i \in LeafNodes} =
       {SeqToSet(groups[j]) : j \in 1..Len(groups)}

\* C11: a repair run on a store just produced by a complete ingestion, with
\* the ingestion's group_size (and any max_depth: ingest_file takes none),
\* changes nothing in the store and returns cleaned = 0, regenerated = 0,
\* generated_level_0 = 0 and generated_hierarchy = 0.
C11_RepairAfterIngestNoOp ==
  /\ []((/\ ipc = "done"
         /\ repairs = 1
         /\ rpc = "done"
         /\ IngestedWith(last_repair.group_size)) =>
          /\ stats.cleaned = 0
          /\ stats.regenerated = 0
          /\ stats.generated_level_0 = 0
          /\ stats.generated_hierarchy = 0)
  /\ [][(/\ ipc = "done"
         /\ repairs' = 1
         /\ IngestedWith(last_repair'.group_size)) =>
          (nodes' = nodes /\ chunks' = chunks)]_vars

\* C12: a second repair run (validate, then repair with the same arguments)
\* right after a first one changes nothing in the store and returns all
\* counts zero (here: after a first run that returned with failed = 0).
C12_SecondRepairNoOp ==
  /\ []((last_repair.repeat /\ rpc = "done") => stats = NoStats)
  /\ [][last_repair'.repeat => (nodes' = nodes /\ chunks' = chunks)]_vars

LevelNodes(l) == {i \in NodeIds(nodes) : nodes[i].level = l}

\* level l holds ceil(m/g) parents over the m nodes of level l - 1; the
\* parent at sequence_index j has the nodes j*g .. min((j+1)*g, m) - 1 of
\* that level as its children
BuiltOver(l, g) ==
  LET m == Cardinality(LevelNodes(l - 1))
      k == (m + g - 1) \div g
  IN /\ Cardinality(LevelNodes(l)) = k
     /\ {nodes[p].seq : p \in LevelNodes(l)} = 0..(k - 1)
     /\ \A p \in LevelNodes(l) :
          /\ Children(p) \subseteq LevelNodes(l - 1)
          /\ {nodes[c].seq : c \in Children(p)} =
               (nodes[p].seq * g)..(Min2((nodes[p].seq + 1) * g, m) - 1)

\* C17: a complete ingestion of n chunks leaves n level-0 nodes with the
\* sequence_index 0..n-1, and every level above holds the ceil(m/g) parents
\* of the m nodes below it, parent j at sequence_index j over the children
\* j*g .. min((j+1)*g, m) - 1; the top level, read in sequence order, is
\* what roots() returns.
C17_TreeOfIngest ==
  (ipc = "done" /\ repairs = 0 /\ rpc = "idle") =>
    /\ Cardinality(LevelNodes(0)) = Len(chunks)
    /\ {nodes[i].seq : i \in LevelNodes(0)} = 0..(Len(chunks) - 1)
    /\ \E g \in 1..MaxGroup :
         \A l \in 1..get_max_summary_level(nodes) : BuiltOver(l, g)

(***************************************************************************)
(* Claims about the texts validate and repair find in the store            *)
(* (SpecTexts).                                                            *)
(***************************************************************************)
\* validate has classified the store and the clean phase has run
Validated == rpc = "regenerate"

\* C16: a node whose stored text is the sentence the summarizer worker
\* returns after its last retry is reported by validate as provider_error,
\* and a repair run whose calls succeed leaves no such text in the store.
C16_SentinelRepaired ==
  /\ Validated =>
       \A i \in NodeIds(nodes) :
         nodes[i].text = ErrorSentinel =>
           i \in SeqToSet(issues.provider_error)
  /\ (rpc = "done" /\ stats.failed = 0) =>
       \A i \in NodeIds(nodes) : nodes[i].text # ErrorSentinel

\* the text begins with a code fence and has no other defect
FenceOnly(text) ==
  /\ HasLeadingFence(text)
  /\ \A i \in 1..Len(text) : text[i] \notin {"TO", "TC", "T1", "PE", "Err"}

\* the repair call validates the store and runs its clean phase
RepairBegins == rpc # "regenerate" /\ rpc' = "regenerate"

\* C18: every node whose text begins with a code fence, whatever tag follows
\* the backticks, is reported by validate as a code-fence issue and counted
\* in cleaned, and its stored text no longer begins with a code fence;
\* without provider errors the run returns regenerated = 0.
C18_FencesCleaned ==
  /\ [][RepairBegins =>
         LET fenced == {i \in NodeIds(nodes) : FenceOnly(nodes[i].text)}
         IN /\ fenced \subseteq SeqToSet(issues'.markdown_prefix)
            /\ stats'.cleaned >= Cardinality(fenced)
            /\ \A i \in fenced : ~HasLeadingFence(nodes'[i].text)]_vars
  /\ []((rpc = "fill" /\ issues.provider_error = <<>>) =>
          stats.regenerated = 0)

\* C19: when validate reports k nodes as provider_error and no call of the
\* regenerate phase fails, the phase returns regenerated = k and failed = 0
\* and no node's text contains the provider-error sentinel any more.
C19_ProviderErrorsRegenerated ==
  (rpc = "fill" /\ stats.failed = 0) =>
    /\ stats.regenerated = Len(issues.provider_error)
    /\ \A i \in NodeIds(nodes) : ~Contains(nodes[i].text, "PE")

(***************************************************************************)
(* Claims about what a repair call may change (SpecDry).                   *)
(***************************************************************************)
\* C21: repair(dry_run = true) leaves the store as it found it: no summary
\* row, text, parent pointer or chunk link and no chunk differs after the
\* call.
C21_DryRunKeepsStore ==
  [][last_repair'.dry_run => (nodes' = nodes /\ chunks' = chunks)]_vars

\* a dry run has returned on a store with a text it would have cleaned
C21_Witness ==
  /\ last_repair.dry_run
  /\ rpc = "done"
  /\ stats.cleaned >= 1
  /\ \E i \in NodeIds(nodes) : ShouldClean(nodes[i].text)

\* a step of a repair call: ingest_file has been left
RepairStep == ipc \in {"done", "aborted"}

\* C22: across a repair run no summary row is removed, no existing row's
\* level or sequence_index changes and the chunks table stays as it is;
\* repair rewrites texts, adds rows and sets parent and chunk links only.
C22_RepairKeepsRows ==
  [][RepairStep =>
       /\ chunks' = chunks
       /\ Len(nodes') >= Len(nodes)
       /\ \A i \in NodeIds(nodes) :
            /\ nodes'[i].level = nodes[i].level
            /\ nodes'[i].seq = nodes[i].seq]_vars

\* a repair run has filled in leaves and built parents over them
C22_Witness ==
  /\ rpc = "done"
  /\ stats.generated_level_0 >= 1
  /\ stats.generated_hierarchy >= 1
  /\ Len(nodes) >= 3

(***************************************************************************)
(* Claims about the writers of the store (SpecStorage).                    *)
(***************************************************************************)
\* C23: no operation overwrites a parent pointer that is set:
\* update_summary_parent sets the parent only of a node whose parent is
\* null.
C23_ParentSetOnce ==
  [][\A i \in NodeIds(nodes) :
       nodes[i].parent # NoParent => nodes'[i].parent = nodes[i].parent]_vars

(***************************************************************************)
(* Claims about the chunkers (SpecFixed, SpecLlm and their fair forms).    *)
(***************************************************************************)
\* C24: the chunks of a non-empty document: the first starts at 0, the
\* start offsets increase strictly, each chunk starts at or before the end
\* of the chunk before it, and the last chunk ends at the document's
\* length.
C24_ChunksInOrder ==
  /\ (last_chunk # NoChunk /\ prev_chunk = NoChunk) =>
       last_chunk.start_index = 0
  /\ prev_chunk # NoChunk =>
       /\ prev_chunk.start_index < last_chunk.start_index
       /\ last_chunk.start_index <= prev_chunk.end_index
  /\ (cpc = "done" /\ doc # <<>>) =>
       /\ last_chunk # NoChunk
       /\ last_chunk.end_index = Len(doc)

\* chunk_text has returned, or has raised
ChunkerLeft == cpc \in {"done", "raised"}

\* C25: a call of chunk_text ends on every document and for every sequence
\* of replies, no chunk it yields is of length zero, and for the empty
\* document it yields nothing.
C25_ChunkersTerminate ==
  /\ <>ChunkerLeft
  /\ [](last_chunk # NoChunk =>
          last_chunk.end_index > last_chunk.start_index)
  /\ [](doc = <<>> => last_chunk = NoChunk)

\* C26: for every reply that parses, whatever its indices, the cut the
\* SemanticBoundaryChunker uses lies in the window and the next start lies
\* strictly before it: 0 <= next_chunk_start_index < cut_index <= window.
C26_CutInWindow ==
  last_cut # NoCut =>
    /\ 0 <= last_cut.next_chunk_start_index
    /\ last_cut.next_chunk_start_index < last_cut.cut_index
    /\ last_cut.cut_index <= last_cut.window

\* C27: when the call of the model fails or its reply does not parse, the
\* SemanticBoundaryChunker does not raise (it cuts at the end of the window
\* and goes on).
C27_FailureFallsBack == cpc # "raised"

\* C28: the text of every chunk of the FixedTokenChunker is the slice
\* [start_index, end_index) of the document, and the texts of the chunks,
\* each without the part that overlaps the chunk before it, are together
\* the document.
C28_FixedRebuildsDocument ==
  /\ (strategy = "fixed" /\ last_chunk # NoChunk) =>
       last_chunk.text =
         Slice(doc, last_chunk.start_index, last_chunk.end_index)
  /\ (strategy = "fixed" /\ cpc = "done") => rebuilt = doc

(***************************************************************************)
(* Claims about the navigator (SpecNav).                                   *)
(***************************************************************************)
\* C29: no tool of the navigator raises to the agent: for every node id,
\* query and direction, and every outcome of the creation of the sub-agent
\* and of its calls, the tool returns a string.
C29_ToolsNeverRaise == nav_out.kind # "raise"

\* the string holds the text of a chunk of the store
HoldsChunkText(out, chs) ==
  \E c \in 1..Len(chs) :
    /\ chs[c] # <<>>
    /\ \/ Like(out.text, chs[c])
       \/ Like(out.arg, chs[c])
       \/ \E j \in 1..Len(out.rows) :
            Like(out.rows[j][Len(out.rows[j])], chs[c])

\* the call was examine_summary_node on a leaf without a query
LeafWithoutQuery ==
  /\ nav_call.op = "examine_summary_node"
  /\ nav_call.id \in NodeIds(nodes)
  /\ nodes[nav_call.id].level = 0
  /\ nav_call.query = <<>>

NoTextReturned ==
  /\ ~HoldsChunkText(nav_out, chunks)
  /\ ~HoldsChunkText(alt_out, alt_chunks)
  /\ LeafWithoutQuery =>
       /\ nav_out.kind = "need_query"
       /\ ~nav_sub.spawned

\* the two stores have the same chunks without text
SameEmptyChunks ==
  \A c \in 1..Len(chunks) : (chunks[c] = <<>>) <=> (alt_chunks[c] = <<>>)

\* the call returned a string on both stores, and the sub-agent's replies
\* were the same
SameReplies ==
  /\ nav_out.kind # "raise"
  /\ alt_out.kind # "raise"
  /\ nav_sub.replies = alt_sub.replies

TopLevel == get_max_summary_level(nodes)

TopNodes == {i \in NodeIds(nodes) : nodes[i].level = TopLevel}

\* every chunk has its level-0 node, every node below the top level has a
\* parent, and the top level is a single node or sits at max_depth
Healed ==
  /\ \A c \in ChunkIds : LeavesOf(c) # {}
  /\ \A i \in NodeIds(nodes) :
       nodes[i].level < TopLevel => nodes[i].parent # NoParent
  /\ Cardinality(TopNodes) = 1 \/ TopLevel >= last_repair.max_depth

\* no call of the current repair run has failed
CallsSucceed == stats.failed = 0 /\ rpc # "aborted"

\* C13: on a store left by an interrupted ingestion or a partially failed
\* repair, if from some run on no LLM call fails, repeated repair runs reach
\* a store where every chunk has its level-0 node, every node below the top
\* level has a parent and the top level is a single node or sits at
\* max_depth, and stay there; in such a store repair changes nothing.
C13_RepairHeals ==
  /\ (<>[]CallsSucceed) => (<>[]Healed)
  /\ [][Healed => nodes' = nodes]_vars

\* The shape of a tree: for every node its level, its sequence index, the
\* chunks it is linked to and the place (level, sequence index) of its
\* parent; and the number of nodes of every level.
Place(tbl, i) == <<tbl[i].level, tbl[i].seq>>

Shape(tbl) ==
  {[level |-> tbl[i].level, seq |-> tbl[i].seq, chunks |-> tbl[i].chunks,
    parent |-> IF tbl[i].parent = NoParent THEN <<>>
               ELSE Place(tbl, tbl[i].parent)] : i \in NodeIds(tbl)}

LevelSizes(tbl) ==
  [l \in 0..MaxNodes |-> Cardinality({i \in NodeIds(tbl) : tbl[i].level = l})]

SameShape(t1, t2) ==
  Shape(t1) = Shape(t2) /\ LevelSizes(t1) = LevelSizes(t2)

\* C15: when ingestion stopped after Phase A (chunks stored, no summary
\* node), one repair run in which no LLM call fails leaves a tree of the
\* shape a clean ingestion with the same group_size gives: the same number
\* of nodes per level, the same sequence indexes, the same parent and chunk
\* links.  (ingest_file with group_size = 1 returns on one chunk only; it
\* takes no max_depth and builds levels up to a single node, so the repair
\* is given a max_depth that allows as many.)
C15_RepairedLikeCleanIngest ==
  LET clean ==
        ingest_summaries(Len(chunks), last_repair.group_size, <<"w">>)
  IN (/\ repairs = 1
      /\ rpc = "done"
      /\ stats.failed = 0
      /\ (last_repair.group_size >= 2 \/ Len(chunks) = 1)
      /\ last_repair.max_depth >= get_max_summary_level(clean)) =>
       SameShape(nodes, clean)

\* C20: after a repair run has filled level-0 nodes for chunks that lacked
\* one, the level-0 nodes read in ascending sequence_index reference chunks
\* in ascending document order.
C20_FilledLeavesInChunkOrder ==
  (rpc = "done" /\ stats.generated_level_0 > 0) =>
    \A i, j \in LeafNodes :
      nodes[i].seq < nodes[j].seq =>
        \A a \in nodes[i].chunks, b \in nodes[j].chunks : a < b

\* C14: after a repair run in which no LLM call failed and which filled in
\* a missing level-0 node, every summary node with a null parent is at the
\* maximum level.
C14_OrphansAtTopLevel ==
  (rpc = "done" /\ stats.failed = 0 /\ stats.generated_level_0 > 0) =>
    \A i \in NodeIds(nodes) :
      nodes[i].parent = NoParent => nodes[i].level = TopLevel

(***************************************************************************)
(* Claims about the rotator (SpecRotator).                                 *)
(***************************************************************************)

\* C9: under every interleaving of get_next_config and force_rotate calls,
\* whenever no call is inside the lock 0 <= index < number of configs and
\* 0 <= call_count < calls_per_model, and a force_rotate call leaves
\* index = (the index it found + 1) mod n with call_count = 0.
RotatorConsistent ==
  rot_lock = 0 =>
    /\ 0 <= rot_index /\ rot_index < rot_n
    /\ 0 <= rot_count /\ rot_count < rot_c

ForceRotateEffect ==
  \A t \in Threads :
    (tpc[t] = "force_advance" /\ tpc'[t] = "idle") =>
      /\ rot_index' = (tprev[t] + 1) % rot_n
      /\ rot_count' = 0

C9_RotatorAtomic ==
  RotatorConsistent /\ [][RotatorConsistent' /\ ForceRotateEffect]_vars

\* a force_rotate has completed on a pool of several models while another
\* thread was waiting, and the counter had been advanced before
C9_Witness ==
  /\ rot_n >= 2
  /\ rot_c >= 2
  /\ rot_forced
  /\ rot_lock = 0
  /\ rot_calls >= 3
  /\ \E t \in Threads : tprev[t] # None /\ rot_index = (tprev[t] + 1) % rot_n
  /\ \E t \in Threads : tprev[t] = rot_n - 1

\* C10: with no force_rotate since construction, the k-th call of
\* get_next_config (k = 0, 1, 2, ...) returns configs[(k div c) mod n].
C10_KthCallConfig ==
  \A t \in Threads :
    (tpc[t] = "get_check" /\ ~rot_forced) =>
      tcfg[t] = (tk[t] \div rot_c) % rot_n

\* the index has wrapped around: call number n*c reads configs[0] again
C10_Witness ==
  \E t \in Threads :
    /\ tpc[t] = "get_check"
    /\ ~rot_forced
    /\ rot_n >= 2
    /\ rot_c >= 2
    /\ tk[t] = rot_n * rot_c
    /\ tcfg[t] = 0

(***************************************************************************)
(* Claims about the retries of a sub-agent spawn (SpecNav).                *)
(***************************************************************************)
IsRun(e) == e \in {"ok", "marker", "exc"}
IsFailure(e) == e \in {"marker", "exc"}

\* Each failed attempt of the log is followed at once by a force_rotate,
\* and force_rotate is called nowhere else.
ForcedAfterEachFailure(log) ==
  /\ \A i \in 1..Len(log) :
       IsFailure(log[i]) => (i < Len(log) /\ log[i + 1] = "force")
  /\ \A i \in 1..Len(log) :
       log[i] = "force" => (i > 1 /\ IsFailure(log[i - 1]))

\* The bounds on the attempts and what the spawn returns: at most
\* max_retries runs; a returned reply is the first marker-free one, in the
\* sub-agent marker; an error string when every run failed.
SubAgentAttempts ==
  LET log  == nav_sub.log
      runs == SelectSeq(log, IsRun)
  IN nav_sub.spawned =>
       /\ Len(runs) <= SubAgentRetries
       /\ nav_out.kind = "subagent" =>
            /\ log # <<>> /\ log[Len(log)] = "ok"
            /\ \A i \in 1..(Len(runs) - 1) : IsFailure(runs[i])
            /\ nav_out.text = nav_sub.replies[Len(nav_sub.replies)]
       /\ (nav_out.kind = "subagent") = (\E i \in 1..Len(log) : log[i] = "ok")
       /\ (log # <<>> /\ \A i \in 1..Len(runs) : IsFailure(runs[i]))
            => nav_out.kind \in {"sub_error", "all_failed"}
       /\ nav_out.kind \in {"sub_error", "all_failed"}
            => Len(runs) = SubAgentRetries
       /\ nav_out.kind = "subagent" => ~HasFailureMarker(nav_out.text)

\* C31 (as stated): a sub-agent spawn makes at most max_retries attempts,
\* calls force_rotate after each failed attempt (a reply with a failure
\* marker, or an exception), returns the first marker-free reply wrapped in
\* the sub-agent marker, returns an error string when every attempt fails,
\* and never returns a reply that contains a failure marker.
C31_SubAgentRetries ==
  /\ SubAgentAttempts
  /\ nav_sub.spawned => ForcedAfterEachFailure(nav_sub.log)

\* C31 (amended): as above, with force_rotate called after each failed
\* attempt when a rotator is configured for the sub-agent, and not called
\* at all when none is.
C31_SubAgentRetriesWithRotator ==
  /\ SubAgentAttempts
  /\ nav_sub.spawned =>
       IF has_rotator THEN ForcedAfterEachFailure(nav_sub.log)
       ELSE \A i \in 1..Len(nav_sub.log) : nav_sub.log[i] # "force"

\* A reply is returned on the last attempt, after a reply with a marker and
\* an exception.
C31_Witness ==
  /\ has_rotator
  /\ nav_out.kind = "subagent"
  /\ nav_sub.log = <<"marker", "force", "exc", "force", "ok">>

(***************************************************************************)
(* Claims about the layout of the database file (SpecDatabase).            *)
(***************************************************************************)
WasOldLayout == ~schema.first.chunk_id /\ schema.first.summary_chunks

JoinLink(id) ==
  IF schema.first.join[id] = None THEN {} ELSE {schema.first.join[id]}

MigratedAfterOpen ==
  (WasOldLayout /\ schema.opens >= 1) =>
    /\ schema.chunk_id
    /\ ~schema.summary_chunks
    /\ \A id \in 1..Len(nodes) :
         nodes[id].chunks = IF nodes[id].level = 0 THEN JoinLink(id) ELSE {}

ReopenChangesNothing ==
  (schema.opens >= 1 /\ schema'.opens > schema.opens) =>
    /\ nodes' = nodes
    /\ schema'.chunk_id = schema.chunk_id
    /\ schema'.summary_chunks = schema.summary_chunks

\* C32: when a store of the older layout (summaries without chunk_id, and
\* table summary_chunks) is opened, then after the open each level-0 node's
\* chunk_id is its chunk of summary_chunks, each higher node's chunk_id is
\* null and there is no table summary_chunks; opening the store again
\* changes nothing.
C32_OpenMigratesOldLayout ==
  /\ []MigratedAfterOpen
  /\ [][ReopenChangesNothing]_vars

(***************************************************************************)
(* Claims about the configuration loader (SpecConfig).                     *)
(***************************************************************************)
Answered == cfg_call.op = "get_agent" /\ ~cfg_call.raised

count_tokens(text) == IF text = <<>> THEN 0 ELSE Len(Encode(text))

Prefix(text, k) == SubSeq(text, 1, k)

\* the longest prefix of the text of at most `most` tokens
LongestPrefix(most, text) ==
  LET fit == {k \in 0..Len(text) : count_tokens(Prefix(text, k)) <= most}
  IN Prefix(text, CHOOSE k \in fit : \A j \in fit : j <= k)

\* C34: get_chunk_at returns the text unchanged when it fits in max_tokens
\* and otherwise the longest prefix of the text whose token count is at
\* most max_tokens; for an empty text it returns the empty text, whose
\* count_tokens is 0.
C34_GetChunkAtIsLongestPrefix ==
  (strategy = "buffer" /\ cpc = "done") =>
    /\ count_tokens(doc) <= max_tokens => last_chunk.text = doc
    /\ count_tokens(doc) > max_tokens =>
         last_chunk.text = LongestPrefix(max_tokens, doc)
    /\ doc = <<>> => (last_chunk.text = <<>> /\ count_tokens(last_chunk.text) = 0)

(***************************************************************************)
(* Claims about the retries of the summarizer worker (SpecWorkers).        *)
(***************************************************************************)
\* worker w's attempt fails in this step: it goes on to the next attempt,
\* or the call returns the error sentinel
AttemptFails(w) ==
  /\ wpc[w] = "run"
  /\ \/ wpc'[w] = "select"
     \/ wpc'[w] = "idle" /\ wlast'[w] = Returned(ErrorSentinel)

\* the step is one call of force_rotate, and no more
ForcedOnce ==
  /\ rot_count' = 0
  /\ rot_index' = NextIndex(rot_index, rot_n)

\* the text is what a reply with a failure marker would be returned as
MarkerSummary(text) ==
  \E content \in Replies : HasFailureMarker(content) /\ text = SummaryOf(content)

\* C35: with a rotator configured, every failed attempt of the summarizer
\* worker is followed by exactly one force_rotate before the worker's next
\* attempt starts, and a reply with a failure marker is never returned as
\* the summary.
C35_FailedAttemptForcesRotation ==
  [][has_rotator =>
       \A w \in Workers :
         /\ AttemptFails(w) => ForcedOnce
         /\ attempt'[w] > attempt[w] => (AttemptFails(w) /\ ForcedOnce)
         /\ (wpc[w] = "run" /\ wlast'[w].kind = "text")
              => ~MarkerSummary(wlast'[w].text)]_vars

\* a worker is about to make its last attempt, after two failed ones, on a
\* pool of two models
C35_Witness ==
  /\ has_rotator
  /\ rot_n = MaxConfigs
  /\ \E w \in Workers : wpc[w] = "select" /\ attempt[w] = MaxRetries - 1

(***************************************************************************)
(* Claims about the clean phase of repair (SpecTexts).                     *)
(***************************************************************************)
\* C36: the clean phase replaces the stored text of each node it looks at
\* by its sanitized text whenever the two differ, also when the sanitized
\* text is empty, counts each such node once in cleaned, and makes no
\* LLM call.
C36_CleanPhaseStoresSanitizedText ==
  [][RepairBegins =>
       LET cleanable ==
             SeqToSet(issues'.think_blocks \o issues'.markdown_prefix)
           differ == {i \in cleanable :
                        clean_summary_text(nodes[i].text) # nodes[i].text}
       IN /\ \A i \in differ :
               nodes'[i].text = clean_summary_text(nodes[i].text)
          /\ stats'.cleaned = Cardinality(differ)
          /\ stats'.regenerated = 0 /\ stats'.failed = 0
          /\ UNCHANGED <<rotVars, wrkVars>>]_vars

(***************************************************************************)
(* Claims about the parallel phases of repair (SpecPool).                  *)
(***************************************************************************)
PhaseOver == pool.futures # <<>> /\ pool.taken = 1..Len(pool.futures)

\* the results of the calls, by chunk id
PoolResults == [c \in 1..Len(pool.futures) |-> pool.futures[c].result]

\* C37: whatever the order in which the parallel LLM calls of a repair
\* phase complete, the nodes written are the ones written when the calls
\* complete in input order, and no two storage writes are in progress at
\* the same time.
C37_WritesInInputOrder ==
  /\ PhaseOver =>
       nodes = FillLeaves(<<>>, [c \in 1..Len(pool.futures) |-> c],
                          PoolResults, 1)
  /\ Cardinality(pool.writing) <= 1

\* the phase is over; the second call completed before the first one, and
\* the summaries of both were written
C37_Witness ==
  /\ PhaseOver
  /\ Len(pool.completed) >= 2
  /\ pool.completed[1] = 2
  /\ pool.completed[2] = 1
  /\ Len(nodes) >= 2
  /\ nodes[1].chunks = {1}
  /\ nodes[2].chunks = {2}

(***************************************************************************)
(* Claims about the end of a repair run (SpecRunsFair).                    *)
(***************************************************************************)
RunOver == rpc \in {"idle", "done", "aborted"}

\* the rows the step adds to table summaries
NewRows == {i \in NodeIds(nodes') : i > Len(nodes)}

\* C38: every repair run terminates, for every group_size >= 1 and
\* max_depth >= 0; it runs at most max_depth - current_max_level rounds of
\* the hierarchy loop and never creates a node above max_depth; with
\* max_depth = 0 it builds no level above the leaves.
C38_RepairTerminates ==
  /\ (~RunOver) ~> RunOver
  /\ [](last_repair.rounds >= 1 =>
          last_repair.rounds <= last_repair.max_depth - last_repair.top)
  /\ [][\A i \in NewRows : nodes'[i].level <= last_repair'.max_depth]_vars
  /\ [][last_repair'.max_depth = 0 => \A i \in NewRows : nodes'[i].level = 0]_vars

\* a run with max_depth = MaxDepth has ended after MaxDepth rounds over the
\* leaves
C38_Witness ==
  /\ rpc = "done"
  /\ last_repair.max_depth = MaxDepth
  /\ last_repair.top = 0
  /\ last_repair.rounds = MaxDepth
  /\ TopLevel = MaxDepth

\* worker w starts a retry: get_next_config gives it the model of its next
\* attempt, and wmodel[w] is still the model of the attempt that failed
RetrySelects(w) ==
  /\ wpc[w] = "select"
  /\ wpc'[w] = "run"
  /\ attempt[w] >= 1

\* C39: with a rotation pool of two or more models, the model a retry
\* attempt uses differs from the model of the attempt that has just failed,
\* for every calls_per_model >= 1 and every interleaving with the other
\* workers that share the rotator.
C39_RetryUsesAnotherModel ==
  [][(has_rotator /\ rot_n >= 2) =>
       \A w \in Workers : RetrySelects(w) => wmodel'[w] # wmodel[w]]_vars

(***************************************************************************)
(* Claims about the counts of the regenerate phase (SpecTexts).            *)
(***************************************************************************)
\* C40: the regenerate phase counts every provider_error node in exactly
\* one of regenerated and failed: when the phase is over,
\* regenerated + failed is the number of provider_error nodes validate
\* reported, whatever their level, linked chunk and children.
C40_EveryProviderErrorCounted ==
  rpc = "fill" =>
    stats.regenerated + stats.failed = Len(issues.provider_error)

====
